---- MODULE Spec2Model ----
(***************************************************************************)
(* A model of the aseprite-reader document model (src/computed/mod.rs and  *)
(* the files beside it): the chunk fold Aseprite::from_raw, the cel and    *)
(* image queries on the assembled document, merged-frame rendering and     *)
(* slice / nine-patch extraction.                                          *)
(*                                                                         *)
(* Three specifications share the variables:                               *)
(*   Spec        from_raw consuming one frame header or chunk per step     *)
(*   SpecRender  image queries on documents shaped as from_raw builds them *)
(*   SpecSlice   slices().get_images on one slice                          *)
(***************************************************************************)
EXTENDS Integers, Sequences, FiniteSets, TLC

VARIABLES
    raw_header,       \* raw.header: width, height, flags
    consumed,         \* the part of raw.frames already folded: frame headers and chunks
    tags,             \* BTreeMap<usize, AsepriteTag>
    layers,           \* BTreeMap<usize, AsepriteLayer>
    cels,             \* BTreeMap<usize, BTreeMap<usize, AsepriteCel>>
    palette,          \* Option<AsepritePalette>: {} is None, {p} is Some(p)
    frame_infos,      \* Vec<AsepriteFrameInfo>
    slices,           \* HashMap<String, AsepriteSlice>
    last_chunk_type,  \* RawAsepriteChunkType, the trailing-metadata target
    status,           \* "running", "ok" (Ok(Aseprite)), "err" (Err), "panic" (abort)
    error,            \* the error value when status = "err"
    overflow_checks,  \* build profile: TRUE panics on integer overflow, FALSE wraps
    query,            \* the last query issued on the document
    result            \* and what it returned

vars == <<raw_header, consumed, tags, layers, cels, palette, frame_infos, slices,
          last_chunk_type, status, error, overflow_checks, query, result>>

-----------------------------------------------------------------------------
(* Bounds of the model *)

\* frame headers plus chunks folded by one from_raw call
MaxInput == 5

-----------------------------------------------------------------------------
(* Values *)

\* AsepriteColor::default() and String::new()
DefaultColor == <<0, 0, 0, 0>>
EmptyString == ""

NoError == [kind |-> "none"]
NoQuery == [op |-> "none"]
NoResult == [kind |-> "none"]

\* number of entries of a BTreeMap / HashMap
MapLen(m) == Cardinality(DOMAIN m)

EmptyMap == <<>>

\* BTreeMap::insert / HashMap::insert: the new value replaces one under the same key
MapInsert(m, k, v) == [x \in (DOMAIN m) \cup {k} |-> IF x = k THEN v ELSE m[x]]

-----------------------------------------------------------------------------
(* The input alphabet: what the upstream decoder may hand to from_raw *)

FrameHeaders == [kind : {"Frame"}, duration_ms : {100}]

LayerChunks ==
    [kind : {"Layer"}, flags : {0, 1}, layer_type : {"Normal", "Group"},
     layer_child : {0}, blend_mode : {"SoftLight"}, opacity : {128}, name : {"L"}]

RawCel == [kind |-> "Raw", width |-> 1, height |-> 1, pixels |-> <<<<255, 0, 0, 255>>>>]

CelChunks ==
    [kind : {"Cel"}, layer_index : {0, 1}, x : {0}, y : {0}, opacity : {255}, cel : {RawCel}]

RawTagA == [from |-> 0, to |-> 1, anim_direction |-> "Forward", name |-> "ta"]
RawTagB == [from |-> 1, to |-> 1, anim_direction |-> "Reverse", name |-> "tb"]

TagsChunks == [kind : {"Tags"}, tags : {<<>>, <<RawTagA>>, <<RawTagB, RawTagA>>}]

PaletteChunks ==
    [kind : {"Palette"}, palette_size : {2}, from_color : {1},
     entries : {<<[color |-> <<0, 255, 0, 255>>]>>}]

UserDatas == {[color |-> <<1, 1, 1, 255>>, text |-> "u1"],
              [color |-> <<2, 2, 2, 255>>, text |-> "u2"]}

UserDataChunks == [kind : {"UserData"}, data : UserDatas]

RawSliceA ==
    [frame |-> 0, x_origin |-> 0, y_origin |-> 0, width |-> 1, height |-> 1,
     nine_patch_info |-> {}]

SliceChunks == [kind : {"Slice"}, name : {"s"}, slices : {<<RawSliceA>>}]

CelExtraChunks == [kind : {"CelExtra"}]
ColorProfileChunks == [kind : {"ColorProfile"}]

-----------------------------------------------------------------------------
(* AsepriteLayer *)

\* AsepriteLayer::new
AsepriteLayer_new(index, name, layer_type, visible, blend_mode, opacity, child_level) ==
    IF layer_type = "Normal"
    THEN [variant |-> "Normal", name |-> name, index |-> index,
          blend_mode |-> blend_mode, opacity |-> opacity, visible |-> visible,
          child_level |-> child_level, color |-> DefaultColor, user_data |-> EmptyString]
    ELSE [variant |-> "Group", name |-> name, index |-> index, visible |-> visible,
          child_level |-> child_level, color |-> DefaultColor, user_data |-> EmptyString]

\* mutant: a nested layer is hidden with the Group it is in
is_visible_TopLevelOnly(layer) == layer.visible /\ layer.child_level = 0

\* a renderer that paints every layer
is_visible_Always(layer) == layer.visible \/ layer.variant \in {"Normal", "Group"}

\* AsepriteLayer::is_visible
is_visible(layer) == layer.visible

\* AsepriteLayer::blend_mode: a Group has none of its own
AsepriteLayer_blend_mode(layer) == IF layer.variant = "Group" THEN "Normal" ELSE layer.blend_mode

\* AsepriteLayer::opacity
AsepriteLayer_opacity(layer) == IF layer.variant = "Group" THEN {} ELSE layer.opacity

\* mutant: the annotation text is not stored
Layer_apply_raw_user_data_ColorOnly(layer, value) ==
    [layer EXCEPT !.color = value.color]

\* AsepriteLayer::apply_raw_user_data
Layer_apply_raw_user_data(layer, value) ==
    [layer EXCEPT !.color = value.color, !.user_data = value.text]

\* mutant: the annotation text becomes the name of the tag too
Tag_apply_raw_user_data_Renaming(tag, value) ==
    [tag EXCEPT !.color = value.color, !.user_data = value.text, !.name = value.text]

\* AsepriteTag::apply_raw_user_data
Tag_apply_raw_user_data(tag, value) ==
    [tag EXCEPT !.color = value.color, !.user_data = value.text]

\* AsepriteCel::new
AsepriteCel_new(x, y, opacity, raw_cel) ==
    [x |-> x, y |-> y, opacity |-> opacity, raw_cel |-> raw_cel,
     color |-> DefaultColor, user_data |-> EmptyString]

-----------------------------------------------------------------------------
(* AsepritePalette *)

TransparentBlack == <<0, 0, 0, 0>>

\* AsepritePalette::from_raw: a table of palette_size entries (position i of the Vec is
\* element i + 1 here); raw_entries[raw_idx] aborts when the chunk carries fewer
\* entries than palette_size - from_color
AsepritePalette_from_raw(palette_size, from_color, raw_entries) ==
    IF \E idx \in from_color .. palette_size - 1 : idx - from_color >= Len(raw_entries)
    THEN [kind |-> "panic", cause |-> "index out of bounds"]
    ELSE [kind |-> "ok",
          entries |-> [i \in 1 .. palette_size |->
                          IF i - 1 >= from_color
                          THEN raw_entries[i - 1 - from_color + 1].color
                          ELSE TransparentBlack]]

-----------------------------------------------------------------------------
(* Aseprite::from_raw, one frame header or one chunk per step *)

Running == status = "running"

\* the chunks of `consumed`, without the frame headers
Chunks(items) == SelectSeq(items, LAMBDA e : e.kind # "Frame")

CanConsume == Running /\ Len(consumed) < MaxInput

\* a chunk lies inside a frame record
InFrame == consumed # <<>>

Consume(item) == consumed' = Append(consumed, item)

QueryIdle == UNCHANGED <<raw_header, overflow_checks, query, result>>

\* mutant: every frame starts with the target it has at the start of the stream
BeginFrame_Resetting(f) ==
    /\ CanConsume
    /\ Consume(f)
    /\ frame_infos' = Append(frame_infos, [delay_ms |-> f.duration_ms])
    /\ last_chunk_type' = [kind |-> "ColorProfile"]
    /\ UNCHANGED <<tags, layers, cels, palette, slices, status, error>>
    /\ QueryIdle

\* for frame in raw.frames { frame_infos.push(..) .. }
BeginFrame(f) ==
    /\ CanConsume
    /\ Consume(f)
    /\ frame_infos' = Append(frame_infos, [delay_ms |-> f.duration_ms])
    /\ UNCHANGED <<tags, layers, cels, palette, slices, last_chunk_type, status, error>>
    /\ QueryIdle

\* mutant: off by one, the new layer takes the key of the last one
NextLayerIndex_Last == IF MapLen(layers) = 0 THEN 0 ELSE MapLen(layers) - 1

\* let layer_index = layers.len();
NextLayerIndex == MapLen(layers)

\* mutant: the opacity of the chunk is kept whatever the header says
LayerOpacity_Always(header_flags, opacity) == {opacity}

\* if raw.header.flags & 0x1 != 0 { Some(opacity) } else { None }
LayerOpacity(header_flags, opacity) == IF header_flags % 2 # 0 THEN {opacity} ELSE {}

\* RawAsepriteChunk::Layer
ChunkLayer(c) ==
    /\ CanConsume /\ InFrame
    /\ Consume(c)
    /\ LET layer_index == NextLayerIndex
           layer == AsepriteLayer_new(layer_index, c.name, c.layer_type,
                                      c.flags % 2 # 0, c.blend_mode,
                                      LayerOpacity(raw_header.flags, c.opacity),
                                      c.layer_child)
       IN  layers' = MapInsert(layers, layer_index, layer)
    /\ last_chunk_type' = [kind |-> "Layer"]
    /\ UNCHANGED <<tags, cels, palette, frame_infos, slices, status, error>>
    /\ QueryIdle

\* mutant: the index is the highest key in use
NextFrameIndex_Last(layer_cels) ==
    IF layer_cels = EmptyMap THEN MapLen(layer_cels) ELSE MapLen(layer_cels) - 1

\* let frame_index = layer_cels.len();
NextFrameIndex(layer_cels) == MapLen(layer_cels)

\* mutant: the cursor keeps the previous cel of the layer
CelCursor_Previous(layer_index, frame_index) ==
    [kind |-> "Cel", layer_index |-> layer_index,
     frame_index |-> IF frame_index > 0 THEN frame_index - 1 ELSE 0]

\* RawAsepriteChunkType::Cel(layer_index as usize, frame_index)
CelCursor(layer_index, frame_index) ==
    [kind |-> "Cel", layer_index |-> layer_index, frame_index |-> frame_index]

\* RawAsepriteChunk::Cel
ChunkCel(c) ==
    /\ CanConsume /\ InFrame
    /\ Consume(c)
    /\ LET layer_cels == IF c.layer_index \in DOMAIN cels
                         THEN cels[c.layer_index] ELSE EmptyMap
           frame_index == NextFrameIndex(layer_cels)
           cel == AsepriteCel_new(c.x, c.y, c.opacity, c.cel)
       IN  /\ cels' = MapInsert(cels, c.layer_index,
                                MapInsert(layer_cels, frame_index, cel))
           /\ last_chunk_type' = CelCursor(c.layer_index, frame_index)
    /\ UNCHANGED <<tags, layers, palette, frame_infos, slices, status, error>>
    /\ QueryIdle

\* the body of `for raw_tag in raw_tags`, from cur_index on
\* mutant: an empty range is stored as 0..0
TagFrames_EmptyAsZero(raw_tag) ==
    IF raw_tag.from >= raw_tag.to
    THEN [start |-> raw_tag.from - raw_tag.from, end |-> raw_tag.to - raw_tag.to]
    ELSE [start |-> raw_tag.from, end |-> raw_tag.to]

\* frames: raw_tag.from..raw_tag.to, a Range<u16> that keeps both bounds
TagFrames(raw_tag) == [start |-> raw_tag.from, end |-> raw_tag.to]

RECURSIVE InsertTags(_, _, _)
InsertTags(m, raw_tags, cur_index) ==
    IF raw_tags = <<>>
    THEN m
    ELSE LET raw_tag == Head(raw_tags)
             tag == [index |-> cur_index,
                     frames |-> TagFrames(raw_tag),
                     animation_direction |-> raw_tag.anim_direction,
                     name |-> raw_tag.name,
                     color |-> DefaultColor, user_data |-> EmptyString]
         IN  InsertTags(MapInsert(m, cur_index, tag), Tail(raw_tags), cur_index + 1)

\* mutant: the cursor restarts at 0 for every Tags chunk
TagsCursor_Zero(start_index) == [kind |-> "Tags", cur_index |-> 0]

\* RawAsepriteChunkType::Tags(start_index)
TagsCursor(start_index) == [kind |-> "Tags", cur_index |-> start_index]

\* RawAsepriteChunk::Tags
ChunkTags(c) ==
    /\ CanConsume /\ InFrame
    /\ Consume(c)
    /\ LET start_index == MapLen(tags)
       IN  /\ tags' = InsertTags(tags, c.tags, start_index)
           /\ last_chunk_type' = TagsCursor(start_index)
    /\ UNCHANGED <<layers, cels, palette, frame_infos, slices, status, error>>
    /\ QueryIdle

\* RawAsepriteChunk::Palette
ChunkPalette(c) ==
    /\ CanConsume /\ InFrame
    /\ Consume(c)
    /\ LET p == AsepritePalette_from_raw(c.palette_size, c.from_color, c.entries)
       IN  IF p.kind = "panic"
           THEN /\ status' = "panic"
                /\ error' = [kind |-> p.cause]
                /\ UNCHANGED <<palette, last_chunk_type>>
           ELSE /\ palette' = {[entries |-> p.entries]}
                /\ last_chunk_type' = [kind |-> "Palette"]
                /\ UNCHANGED <<status, error>>
    /\ UNCHANGED <<tags, layers, cels, frame_infos, slices>>
    /\ QueryIdle

\* mutant: the first layer instead of the last
UserDataLayerId_First == MapLen(layers) - MapLen(layers)

\* let id = layers.len() - 1;
UserDataLayerId == MapLen(layers) - 1

\* mutant: the cursor does not advance
TagsCursorAdvance_Stay(cur_index) == cur_index

\* *cur_index += 1;
TagsCursorAdvance(cur_index) == cur_index + 1

\* mutant: the annotation goes to the first cel of the layer
UserDataCelFrame_First(frame_index) == frame_index - frame_index

\* layer_cels.get_mut(frame_index)
UserDataCelFrame(frame_index) == frame_index

\* mutant: a UserData chunk after a Palette chunk is taken for a layer's
UserDataArm_PaletteAsLayer(target) ==
    IF target.kind \in {"Layer", "Palette"} THEN "Layer"
    ELSE IF target.kind \in {"Tags", "Cel"} THEN target.kind ELSE "_"

\* the arm of `match &mut last_chunk_type` that takes the chunk
UserDataArm(target) ==
    IF target.kind \in {"Layer", "Tags", "Cel"} THEN target.kind ELSE "_"

\* RawAsepriteChunk::UserData, by the arm of `match &mut last_chunk_type`
ChunkUserData(c) ==
    /\ CanConsume /\ InFrame
    /\ Consume(c)
    /\ CASE UserDataArm(last_chunk_type) = "Layer" ->
              LET id == UserDataLayerId
              IN  IF id \in DOMAIN layers
                  THEN /\ layers' = [layers EXCEPT
                                       ![id] = Layer_apply_raw_user_data(@, c.data)]
                       /\ UNCHANGED <<tags, cels, last_chunk_type, status, error>>
                  ELSE \* layers.get_mut(&id).unwrap()
                       /\ status' = "panic"
                       /\ error' = [kind |-> "unwrap on None"]
                       /\ UNCHANGED <<layers, tags, cels, last_chunk_type>>
         [] UserDataArm(last_chunk_type) = "Tags" ->
              LET cur_index == last_chunk_type.cur_index
              IN  IF cur_index \in DOMAIN tags
                  THEN /\ tags' = [tags EXCEPT
                                     ![cur_index] = Tag_apply_raw_user_data(@, c.data)]
                       /\ last_chunk_type' =
                              [last_chunk_type EXCEPT
                                 !.cur_index = TagsCursorAdvance(cur_index)]
                       /\ UNCHANGED <<layers, cels, status, error>>
                  ELSE \* tags.get_mut(&cur_index).unwrap()
                       /\ status' = "panic"
                       /\ error' = [kind |-> "unwrap on None"]
                       /\ UNCHANGED <<layers, tags, cels, last_chunk_type>>
         [] UserDataArm(last_chunk_type) = "Cel" ->
              LET layer_index == last_chunk_type.layer_index
                  frame_index == UserDataCelFrame(last_chunk_type.frame_index)
              IN  IF layer_index \notin DOMAIN cels
                  THEN /\ status' = "err"
                       /\ error' = [kind |-> "InvalidLayer", index |-> layer_index]
                       /\ UNCHANGED <<layers, tags, cels, last_chunk_type>>
                  ELSE IF frame_index \notin DOMAIN cels[layer_index]
                  THEN /\ status' = "err"
                       /\ error' = [kind |-> "InvalidFrame", index |-> frame_index]
                       /\ UNCHANGED <<layers, tags, cels, last_chunk_type>>
                  ELSE /\ cels' = [cels EXCEPT
                                     ![layer_index][frame_index] =
                                        [@ EXCEPT !.color = c.data.color,
                                                  !.user_data = c.data.text]]
                       /\ UNCHANGED <<layers, tags, last_chunk_type, status, error>>
         [] OTHER ->
              \* `_ => {}`
              UNCHANGED <<layers, tags, cels, last_chunk_type, status, error>>
    /\ UNCHANGED <<palette, frame_infos, slices>>
    /\ QueryIdle

\* the AsepriteSlice built from one RawAsepriteSlice; `frame as u16` truncates
AsepriteSlice_of(name, raw_slice) ==
    [name |-> name, valid_frame |-> raw_slice.frame % 65536,
     position_x |-> raw_slice.x_origin, position_y |-> raw_slice.y_origin,
     width |-> raw_slice.width, height |-> raw_slice.height,
     nine_patch_info |-> raw_slice.nine_patch_info]

\* slices.extend(..): every entry goes under the chunk's name, the last one stays
RECURSIVE ExtendSlices(_, _, _)
ExtendSlices(m, name, raw_slices) ==
    IF raw_slices = <<>>
    THEN m
    ELSE ExtendSlices(MapInsert(m, name, AsepriteSlice_of(name, Head(raw_slices))),
                      name, Tail(raw_slices))

\* RawAsepriteChunk::Slice
ChunkSlice(c) ==
    /\ CanConsume /\ InFrame
    /\ Consume(c)
    /\ slices' = ExtendSlices(slices, c.name, c.slices)
    /\ last_chunk_type' = [kind |-> "Slice"]
    /\ UNCHANGED <<tags, layers, cels, palette, frame_infos, status, error>>
    /\ QueryIdle

\* RawAsepriteChunk::CelExtra: todo!("Not yet implemented cel extra") aborts
ChunkCelExtra(c) ==
    /\ CanConsume /\ InFrame
    /\ Consume(c)
    /\ status' = "panic"
    /\ error' = [kind |-> "not yet implemented"]
    /\ UNCHANGED <<tags, layers, cels, palette, frame_infos, slices, last_chunk_type>>
    /\ QueryIdle

\* RawAsepriteChunk::ColorProfile: error!(..) logs and goes on
ChunkColorProfile(c) ==
    /\ CanConsume /\ InFrame
    /\ Consume(c)
    /\ UNCHANGED <<tags, layers, cels, palette, frame_infos, slices, last_chunk_type,
                   status, error>>
    /\ QueryIdle

\* the input ends here: Ok(Aseprite { .. })
Return ==
    /\ Running
    /\ status' = "ok"
    /\ UNCHANGED <<consumed, tags, layers, cels, palette, frame_infos, slices,
                   last_chunk_type, error>>
    /\ QueryIdle

\* the locals of from_raw before the first frame
Init ==
    /\ raw_header \in [width : {2}, height : {2}, flags : {0, 1}]
    /\ consumed = <<>>
    /\ tags = EmptyMap
    /\ layers = EmptyMap
    /\ cels = EmptyMap
    /\ palette = {}
    /\ frame_infos = <<>>
    /\ slices = EmptyMap
    /\ last_chunk_type = [kind |-> "ColorProfile"]
    /\ status = "running"
    /\ error = NoError
    /\ overflow_checks = TRUE
    /\ query = NoQuery
    /\ result = NoResult

Next ==
    \/ \E f \in FrameHeaders : BeginFrame(f)
    \/ \E c \in LayerChunks : ChunkLayer(c)
    \/ \E c \in CelChunks : ChunkCel(c)
    \/ \E c \in TagsChunks : ChunkTags(c)
    \/ \E c \in PaletteChunks : ChunkPalette(c)
    \/ \E c \in UserDataChunks : ChunkUserData(c)
    \/ \E c \in SliceChunks : ChunkSlice(c)
    \/ \E c \in CelExtraChunks : ChunkCelExtra(c)
    \/ \E c \in ColorProfileChunks : ChunkColorProfile(c)
    \/ Return

Spec == Init /\ [][Next]_vars

-----------------------------------------------------------------------------
(* The document and its queries *)

\* the Aseprite value from_raw returns, as the queries read it
Aseprite ==
    [dimensions |-> <<raw_header.width, raw_header.height>>,
     layers |-> layers, cels |-> cels, palette |-> palette, slices |-> slices,
     tags |-> tags, frame_infos |-> frame_infos]

Ok(v) == [kind |-> "ok", value |-> v]
Err(e) == [kind |-> "err", error |-> e]
Panic(cause) == [kind |-> "panic", cause |-> cause]

\* `?` on an AsepriteInvalidError inside a function returning AseResult
FromInvalid(kind, index) ==
    [variant |-> "From<AsepriteInvalidError>", inner |-> kind, index |-> index]

\* AsepriteError::InvalidConfiguration(AsepriteInvalidError::InvalidFrame(..))
InvalidConfiguration(frame_position) ==
    [variant |-> "InvalidConfiguration", inner |-> "InvalidFrame", index |-> frame_position]

\* mutant: a missing frame is reported as a missing layer
get_cel_InvalidLayerOnly(aseprite, layer_index, frame_index) ==
    IF layer_index \notin DOMAIN aseprite.cels
       \/ frame_index \notin DOMAIN aseprite.cels[layer_index]
    THEN Err(FromInvalid("InvalidLayer", layer_index))
    ELSE Ok(aseprite.cels[layer_index][frame_index])

\* Aseprite::get_cel
get_cel(aseprite, layer_index, frame_index) ==
    IF layer_index \notin DOMAIN aseprite.cels
    THEN Err(FromInvalid("InvalidLayer", layer_index))
    ELSE IF frame_index \notin DOMAIN aseprite.cels[layer_index]
    THEN Err(FromInvalid("InvalidFrame", frame_index))
    ELSE Ok(aseprite.cels[layer_index][frame_index])

\* RgbaImage::new: every pixel is (0, 0, 0, 0)
RgbaImage_new(width, height) ==
    [width |-> width, height |-> height,
     pixels |-> [p \in (0 .. width - 1) \X (0 .. height - 1) |-> TransparentBlack]]

\* Pixel::blend for Rgba<u8>: a source of alpha 0 leaves the destination, a source of
\* alpha 255 replaces it (the pixels of the model have no other alpha)
Blend(dst, src) == IF src[4] = 0 THEN dst ELSE src

\* AsepritePixel::get_rgba for an RGBA pixel
GetRgba(raw_pixel) == raw_pixel

\* the modulus of u16 arithmetic
U16 == 2 ^ 16

\* `(x + y * width) as usize`, computed in u16: beyond 65535 a build with overflow
\* checks aborts and one without wraps
PixelIndex(x, y, width, height) ==
    IF x + y * width < U16 THEN Ok(x + y * width)
    ELSE IF ~overflow_checks THEN Ok((x + y * width) % U16)
    ELSE IF y * width >= U16 THEN Panic("attempt to multiply with overflow")
    ELSE Panic("attempt to add with overflow")

\* the two loops shared by write_image and the closure write_to_image, x outside and
\* y inside: source pixel (x, y) goes to (x + dx, y + dy). A negative destination is
\* skipped before anything is read. The first pixel at which something fails ends
\* the call: the index computation, then pixels[..] on a block that is too short,
\* then get_pixel_mut on a destination beyond the image.
Paint(image, dx, dy, width, height, pixels) ==
    LET written == {s \in (0 .. width - 1) \X (0 .. height - 1) :
                       s[1] + dx >= 0 /\ s[2] + dy >= 0}
        Index(s) == PixelIndex(s[1], s[2], width, height)
        Short(s) == Index(s).kind = "ok" /\ Index(s).value >= Len(pixels)
        Beyond(s) == s[1] + dx >= image.width \/ s[2] + dy >= image.height
        failing == {s \in written : Index(s).kind = "panic" \/ Short(s) \/ Beyond(s)}
        first == CHOOSE s \in failing :
                    \A t \in failing : s[1] < t[1] \/ (s[1] = t[1] /\ s[2] <= t[2])
    IN  IF failing # {}
        THEN IF Index(first).kind = "panic" THEN Index(first)
             ELSE IF Short(first) THEN Panic("index out of bounds")
             ELSE Panic("Image index out of bounds")
        ELSE Ok([image EXCEPT !.pixels =
                   [p \in DOMAIN image.pixels |->
                      IF <<p[1] - dx, p[2] - dy>> \in written
                      THEN Blend(image.pixels[p],
                                 GetRgba(pixels[Index(<<p[1] - dx, p[2] - dy>>).value + 1]))
                      ELSE image.pixels[p]]])

\* Aseprite::write_image with cel = None: a fresh image of the cel's own size
write_image(width, height, pixels) ==
    Paint(RgbaImage_new(width, height), 0, 0, width, height, pixels)

\* the closure write_to_image of image_for_frame: the cel's offset is applied
write_to_image(image, cel, width, height, pixels) ==
    Paint(image, cel.x, cel.y, width, height, pixels)

HasPixels(raw_cel) == raw_cel.kind \in {"Raw", "Compressed"}

\* `*frame_position as usize - 1`: for frame_position = 0 a build with overflow checks
\* aborts and one without wraps to usize::MAX, which is the key of no cel (written -1)
LinkedFrameIndex(frame_position) ==
    IF frame_position >= 1 THEN Ok(frame_position - 1)
    ELSE IF overflow_checks THEN Panic("attempt to subtract with overflow")
    ELSE Ok(-1)

\* mutant: a link to a linked cel is passed over as a cel without pixels
SecondMatch_Tolerant(target) ==
    IF HasPixels(target.raw_cel)
    THEN Ok(target.raw_cel)
    ELSE Ok([kind |-> "Raw", width |-> 0, height |-> 0, pixels |-> <<>>])

\* the inner `match` on the cel a Linked cel points to
SecondMatch(target) ==
    IF HasPixels(target.raw_cel)
    THEN Ok(target.raw_cel)
    ELSE Err(InvalidConfiguration(target.raw_cel.frame_position))

\* the pixel source behind a cel, with the cels looked up on the way:
\* Raw / Compressed is its own source, Linked is followed once
Resolve(aseprite, layer_index, cel) ==
    IF HasPixels(cel.raw_cel)
    THEN [res |-> Ok(cel.raw_cel), lookups |-> <<>>]
    ELSE LET fi == LinkedFrameIndex(cel.raw_cel.frame_position)
         IN  IF fi.kind = "panic"
             THEN [res |-> fi, lookups |-> <<>>]
             ELSE LET got == get_cel(aseprite, layer_index, fi.value)
                      looked == <<<<layer_index, fi.value>>>>
                  IN  IF got.kind = "err"
                      THEN [res |-> got, lookups |-> looked]
                      ELSE [res |-> SecondMatch(got.value), lookups |-> looked]

\* Aseprite::get_image_by_layer_frame; `lookups` lists the get_cel calls made
get_image_by_layer_frame(aseprite, layer_index, frame_index) ==
    LET got == get_cel(aseprite, layer_index, frame_index)
        first == <<<<layer_index, frame_index>>>>
    IN  IF got.kind = "err"
        THEN [res |-> got, lookups |-> first]
        ELSE LET r == Resolve(aseprite, layer_index, got.value)
             IN  [res |-> IF r.res.kind = "ok"
                          THEN write_image(r.res.value.width, r.res.value.height,
                                           r.res.value.pixels)
                          ELSE r.res,
                  lookups |-> first \o r.lookups]

MinKey(keys) == CHOOSE k \in keys : \A x \in keys : k <= x

\* the body of `for (layer_index, layer) in &aseprite.layers`, in ascending key order
RECURSIVE PaintLayers(_, _, _, _, _)
PaintLayers(aseprite, frame_index, keys, image, lookups) ==
    IF keys = {}
    THEN [res |-> Ok(image), lookups |-> lookups]
    ELSE LET layer_index == MinKey(keys)
             rest == keys \ {layer_index}
             got == get_cel(aseprite, layer_index, frame_index)
             first == <<<<layer_index, frame_index>>>>
         IN  IF ~is_visible(aseprite.layers[layer_index])
             THEN PaintLayers(aseprite, frame_index, rest, image, lookups)
             ELSE IF got.kind = "err"
             THEN PaintLayers(aseprite, frame_index, rest, image, lookups \o first)
             ELSE LET r == Resolve(aseprite, layer_index, got.value)
                      seen == lookups \o first \o r.lookups
                      painted == write_to_image(image, got.value, r.res.value.width,
                                                r.res.value.height, r.res.value.pixels)
                  IN  IF r.res.kind # "ok"
                      THEN [res |-> r.res, lookups |-> seen]
                      ELSE IF painted.kind # "ok"
                      THEN [res |-> painted, lookups |-> seen]
                      ELSE PaintLayers(aseprite, frame_index, rest, painted.value, seen)

\* image_for_frame
image_for_frame(aseprite, frame_index) ==
    PaintLayers(aseprite, frame_index, DOMAIN aseprite.layers,
                RgbaImage_new(aseprite.dimensions[1], aseprite.dimensions[2]), <<>>)

-----------------------------------------------------------------------------
(* SpecRender: queries on a returned document *)

\* layers of one document, and cels of one layer
MaxLayers == 2
MaxFrames == 2

RedPixel == <<255, 0, 0, 255>>

\* the cels a layer may hold: a 1x1 red block at the origin, or a link whose target
\* is frame index 1 (the cel itself, a later cel, or no cel)
RenderCels ==
    {AsepriteCel_new(0, 0, 255, raw_cel) :
        raw_cel \in {[kind |-> "Raw", width |-> 1, height |-> 1, pixels |-> <<RedPixel>>],
                     [kind |-> "Linked", frame_position |-> 2]}}

\* from_raw keeps the keys of every map dense from 0
DenseMaps(n, values) == [0 .. n - 1 -> values]

RenderLayers(n) ==
    {[i \in 0 .. n - 1 |->
         AsepriteLayer_new(i, "L", "Normal", vis[i], "Normal", {255}, 0)] :
       vis \in [0 .. n - 1 -> BOOLEAN]}

CelColumns == UNION {DenseMaps(m, RenderCels) : m \in 0 .. MaxFrames}

\* cels.entry(layer_index).or_insert(..): a layer without Cel chunk has no entry
WithoutEmpty(columns) ==
    [l \in {i \in DOMAIN columns : columns[i] # EmptyMap} |-> columns[l]]

\* mutant: a query takes the cels out of the document it reads
AssemblyIdle_TakingCels ==
    /\ cels' = [l \in DOMAIN cels \ DOMAIN layers |-> cels[l]]
    /\ UNCHANGED <<raw_header, consumed, tags, layers, palette, frame_infos, slices,
                   last_chunk_type, status, error, overflow_checks>>

\* &self: a query borrows the document and cannot assign to it
AssemblyIdle ==
    UNCHANGED <<raw_header, consumed, tags, layers, cels, palette, frame_infos, slices,
                last_chunk_type, status, error, overflow_checks>>

Returned == status = "ok"

\* the caller holds no result of an earlier query
Idle == query = NoQuery

\* Aseprite::get_image_by_layer_frame(&layer_index, &frame_index)
GetImageByLayerFrame(layer_index, frame_index) ==
    /\ Returned /\ Idle
    /\ query' = [op |-> "get_image_by_layer_frame",
                 layer_index |-> layer_index, frame_index |-> frame_index]
    /\ result' = get_image_by_layer_frame(Aseprite, layer_index, frame_index)
    /\ AssemblyIdle

\* image_for_frame(aseprite, frame_index)
ImageForFrame(frame_index) ==
    /\ Returned /\ Idle
    /\ query' = [op |-> "image_for_frame", frame_index |-> frame_index]
    /\ result' = image_for_frame(Aseprite, frame_index)
    /\ AssemblyIdle

\* the caller is done with the value a query returned; the document stays
DropResult ==
    /\ Returned /\ ~Idle
    /\ query' = NoQuery
    /\ result' = NoResult
    /\ AssemblyIdle

InitRender ==
    /\ raw_header = [width |-> 2, height |-> 2, flags |-> 1]
    /\ consumed = <<>>
    /\ tags = EmptyMap
    /\ \E n \in 0 .. MaxLayers :
          /\ layers \in RenderLayers(n)
          /\ \E columns \in [0 .. n - 1 -> CelColumns] :
                cels = WithoutEmpty(columns)
    /\ palette = {}
    /\ frame_infos = [i \in 1 .. MaxFrames |-> [delay_ms |-> 100]]
    /\ slices = EmptyMap
    /\ last_chunk_type = [kind |-> "ColorProfile"]
    /\ status = "ok"
    /\ error = NoError
    /\ overflow_checks = TRUE
    /\ query = NoQuery
    /\ result = NoResult

NextRender ==
    \/ \E l \in 0 .. MaxLayers, f \in 0 .. MaxFrames : GetImageByLayerFrame(l, f)
    \/ \E f \in 0 .. MaxFrames : ImageForFrame(f)
    \/ DropResult

SpecRender == InitRender /\ [][NextRender]_vars

-----------------------------------------------------------------------------
(* slices().get_images *)

Min(a, b) == IF a <= b THEN a ELSE b

\* mutant: the first of the two, whichever is larger
Max_First(a, b) == a

Max(a, b) == IF a >= b THEN a ELSE b

\* the modulus of u32 arithmetic. It stands in for 2^32, which is beyond the integers
\* of the model checker; every coordinate of the model is far below both.
U32 == 2 ^ 30

\* `i as u32` for an i32: a negative value wraps
AsU32(i) == IF i < 0 THEN U32 + i ELSE i

\* u32 `+` and `-`: a build with overflow checks aborts, one without wraps
AddU32(a, b) ==
    IF a + b < U32 THEN Ok(a + b)
    ELSE IF overflow_checks THEN Panic("attempt to add with overflow")
    ELSE Ok(a + b - U32)

SubU32(a, b) ==
    IF a >= b THEN Ok(a - b)
    ELSE IF overflow_checks THEN Panic("attempt to subtract with overflow")
    ELSE Ok(a - b + U32)

\* image::imageops::crop_imm: the bounds of the SubImage, clamped to the image
crop_imm(image, x, y, width, height) ==
    LET cx == Min(x, image.width)
        cy == Min(y, image.height)
    IN  [x |-> cx, y |-> cy,
         width |-> Min(width, image.width - cx),
         height |-> Min(height, image.height - cy)]

\* SubImage::to_image: a copy of the pixels inside the bounds
to_image(image, sub) ==
    [width |-> sub.width, height |-> sub.height,
     pixels |-> [p \in (0 .. sub.width - 1) \X (0 .. sub.height - 1) |->
                   image.pixels[<<p[1] + sub.x, p[2] + sub.y>>]]]

NineSlice ==
    {"TopLeft", "TopCenter", "TopRight", "RightCenter", "BottomRight",
     "BottomCenter", "BottomLeft", "LeftCenter", "Center"}

\* mutant: the right column starts where the center column starts
RightX_AtPatch(patch_x, info) == AddU32(patch_x, info.width - info.width)

\* let x = patch_x + info.width
RightX(patch_x, info) == AddU32(patch_x, info.width)

\* the first of the steps that aborted, or the last step
RECURSIVE FirstPanic(_)
FirstPanic(steps) ==
    IF Len(steps) = 1 \/ Head(steps).kind = "panic"
    THEN Head(steps)
    ELSE FirstPanic(Tail(steps))

\* the closure of `slice.nine_patch_info.as_ref().map(..)`: the nine crops of the
\* slice image, or the first arithmetic step that aborts
nine_slices(slice, info, image) ==
    LET patch_x == AsU32(info.x_center)
        patch_y == AsU32(info.y_center)
        right == RightX(patch_x, info)
        w1 == SubU32(slice.width, info.width)
        w2 == IF w1.kind = "ok" THEN SubU32(w1.value, patch_x) ELSE w1
        bottom == AddU32(info.height, patch_y)
        h1 == SubU32(slice.height, info.height)
        h2 == IF h1.kind = "ok" THEN SubU32(h1.value, patch_y) ELSE h1
        last == FirstPanic(<<right, w1, w2, bottom, h1, h2>>)
        Crop(x, y, width, height) == to_image(image, crop_imm(image, x, y, width, height))
    IN  IF last.kind = "panic"
        THEN last
        ELSE Ok([n \in NineSlice |->
               CASE n = "TopLeft" -> Crop(0, 0, patch_x, patch_y)
                 [] n = "TopCenter" -> Crop(patch_x, 0, info.width, patch_y)
                 [] n = "TopRight" -> Crop(right.value, 0, w2.value, patch_y)
                 [] n = "RightCenter" -> Crop(right.value, patch_y, w2.value, info.height)
                 [] n = "BottomRight" -> Crop(right.value, bottom.value, w2.value, h2.value)
                 [] n = "BottomCenter" -> Crop(patch_x, bottom.value, info.width, h2.value)
                 [] n = "BottomLeft" -> Crop(0, bottom.value, patch_x, h2.value)
                 [] n = "LeftCenter" -> Crop(0, patch_y, patch_x, info.height)
                 [] n = "Center" -> Crop(patch_x, patch_y, info.width, info.height)])

\* the body of `for slice in wanted_slices`: one AsepriteSliceImage
slice_image(aseprite, slice) ==
    LET frame == image_for_frame(aseprite, slice.valid_frame).res
        image == to_image(frame.value,
                          crop_imm(frame.value, AsU32(Max(slice.position_x, 0)),
                                   AsU32(Max(slice.position_y, 0)),
                                   slice.width, slice.height))
        nine == nine_slices(slice, CHOOSE info \in slice.nine_patch_info : TRUE, image)
    IN  IF frame.kind # "ok" THEN frame
        ELSE IF slice.nine_patch_info = {}
        THEN Ok([image |-> image, nine_slices |-> {}])
        ELSE IF nine.kind # "ok" THEN nine
        ELSE Ok([image |-> image, nine_slices |-> {nine.value}])

\* AsepriteSlices::get_images: the images in the order asked, or the first failure
RECURSIVE get_images(_, _, _)
get_images(aseprite, wanted_slices, out) ==
    IF wanted_slices = <<>>
    THEN Ok(out)
    ELSE LET one == slice_image(aseprite, Head(wanted_slices))
         IN  IF one.kind # "ok" THEN one
             ELSE get_images(aseprite, Tail(wanted_slices), Append(out, one.value))

-----------------------------------------------------------------------------
(* SpecSlice: slices cut from a painted document *)

\* the largest width, height or center coordinate of a slice
MaxSide == 3

\* the pixel at (x, y) of the painted cel: every position has a colour of its own
Painted(width, height) ==
    [i \in 1 .. width * height |-> <<(i - 1) % width, (i - 1) \div width, 0, 255>>]

\* one visible layer: frame 0 covers the canvas, frame 1 links to itself
SliceCels(width, height) ==
    0 :> (0 :> AsepriteCel_new(0, 0, 255, [kind |-> "Raw", width |-> width,
                                           height |-> height,
                                           pixels |-> Painted(width, height)])
          @@ 1 :> AsepriteCel_new(0, 0, 255, [kind |-> "Linked", frame_position |-> 2]))

NinePatchInfos ==
    [x_center : -1 .. MaxSide, y_center : 0 .. MaxSide,
     width : 0 .. MaxSide, height : 0 .. MaxSide]

\* the slice sub-records of the decoder: with a nine-patch descriptor on frame 0, or
\* without one on either frame
RawSlices ==
    [frame : {0}, x_origin : {-1, 0, 1}, y_origin : {0, 1},
     width : 0 .. MaxSide, height : 0 .. MaxSide,
     nine_patch_info : {{info} : info \in NinePatchInfos}]
    \cup
    [frame : {0, 1}, x_origin : {-1, 0, 1}, y_origin : {-1, 0, 1},
     width : 0 .. MaxSide, height : 0 .. MaxSide, nine_patch_info : {{}}]

\* slices().get_images(wanted_slices)
GetImages(wanted_slices) ==
    /\ Returned /\ Idle
    /\ query' = [op |-> "get_images", wanted |-> wanted_slices]
    /\ result' = [res |-> get_images(Aseprite, wanted_slices, <<>>), lookups |-> <<>>]
    /\ AssemblyIdle

InitSlice ==
    /\ raw_header = [width |-> 3, height |-> 3, flags |-> 1]
    /\ consumed = <<>>
    /\ tags = EmptyMap
    /\ layers = 0 :> AsepriteLayer_new(0, "L", "Normal", TRUE, "Normal", {255}, 0)
    /\ cels = SliceCels(raw_header.width, raw_header.height)
    /\ palette = {}
    /\ frame_infos = <<[delay_ms |-> 100], [delay_ms |-> 100]>>
    /\ \E raw_slice \in RawSlices : slices = ExtendSlices(EmptyMap, "s", <<raw_slice>>)
    /\ last_chunk_type = [kind |-> "Slice"]
    /\ status = "ok"
    /\ error = NoError
    /\ overflow_checks \in BOOLEAN
    /\ query = NoQuery
    /\ result = NoResult

NextSlice ==
    \/ \E name \in DOMAIN slices : GetImages(<<slices[name]>>)
    \/ DropResult

SpecSlice == InitSlice /\ [][NextSlice]_vars

-----------------------------------------------------------------------------
(* SpecPalette: from_raw on a stream with one Palette chunk *)

\* the largest declared palette size and start index, and the most explicit entries
MaxPaletteSize == 5
MaxEntries == 3

SeqsUpTo(n, values) == UNION {[1 .. k -> values] : k \in 0 .. n}

PaletteColors == {<<0, 255, 0, 255>>, <<0, 0, 255, 255>>}

PaletteInputs ==
    [kind : {"Palette"}, palette_size : 0 .. MaxPaletteSize,
     from_color : 0 .. MaxPaletteSize,
     entries : SeqsUpTo(MaxEntries, [color : PaletteColors])]

NoPaletteYet == \A i \in 1 .. Len(consumed) : consumed[i].kind # "Palette"

NextPalette ==
    \/ \E f \in FrameHeaders : consumed = <<>> /\ BeginFrame(f)
    \/ \E c \in PaletteInputs : NoPaletteYet /\ ChunkPalette(c)
    \/ Return

SpecPalette == Init /\ [][NextPalette]_vars

-----------------------------------------------------------------------------
(* build_layer_tree and find_layer_belong_groups *)

\* A BTreeMap<usize, LayerTreeNode> with its nested maps is written as one function
\* from key paths to nodes: <<k1, .., kn>> is the entry under key kn of the map
\* inside the Group node at <<k1, .., kn-1>>.
EmptyTree == <<>>

IsPrefix(p, q) == Len(p) <= Len(q) /\ SubSeq(q, 1, Len(p)) = p

\* the keys of the map at `path` (the root map for the empty path)
ChildKeys(tree, path) ==
    {q[Len(q)] : q \in {r \in DOMAIN tree : Len(r) = Len(path) + 1 /\ IsPrefix(path, r)}}

\* mutant: the walk follows the first entry of a level
LastKey_First(keys) == CHOOSE k \in keys : \A x \in keys : k <= x

\* cur_tree.last_key_value()
LastKey(keys) == CHOOSE k \in keys : \A x \in keys : x <= k

\* mutant: a leaf met on the way ends the walk at the level it is in
AtLeaf_Stay(path) == Ok(path)

\* `_ => unreachable!()`: the entry followed is a Normal leaf
AtLeaf(path) == Panic("entered unreachable code")

\* the `while cur_child_level > 0` loop: the path of the map the layer goes into
RECURSIVE Descend(_, _, _)
Descend(tree, path, cur_child_level) ==
    IF cur_child_level = 0
    THEN Ok(path)
    ELSE IF ChildKeys(tree, path) = {}
    THEN Panic("unwrap on None")
    ELSE LET next == Append(path, LastKey(ChildKeys(tree, path)))
         IN  IF tree[next].variant = "Group"
             THEN Descend(tree, next, cur_child_level - 1)
             ELSE AtLeaf(path)

\* BTreeMap::insert in the map at `path`: an entry under the same key is replaced
\* together with what it held
TreeInsert(tree, path, key, node) ==
    LET at == Append(path, key)
    IN  [p \in {q \in DOMAIN tree : ~IsPrefix(at, q)} \cup {at} |->
            IF p = at THEN node ELSE tree[p]]

\* LayerTreeNode::Group(layer, BTreeMap::new()) / LayerTreeNode::Normal(layer)
LayerTreeNode(layer) == [variant |-> layer.variant, layer |-> layer]

\* `for layer in layers`, in the order of the iterator (ascending keys of the map);
\* an abort names the layer it happened at
RECURSIVE BuildFrom(_, _, _)
BuildFrom(tree, all_layers, keys) ==
    IF keys = {}
    THEN Ok(tree)
    ELSE LET layer == all_layers[MinKey(keys)]
             into == Descend(tree, <<>>, layer.child_level)
         IN  IF into.kind = "panic"
             THEN [kind |-> "panic", cause |-> into.cause, layer |-> layer.index]
             ELSE BuildFrom(TreeInsert(tree, into.value, layer.index, LayerTreeNode(layer)),
                            all_layers, keys \ {MinKey(keys)})

\* build_layer_tree(self.layers.values())
build_layer_tree(all_layers) == BuildFrom(EmptyTree, all_layers, DOMAIN all_layers)

Diverges == [kind |-> "diverges"]

\* mutant: any Group stops the scan
IsGroupAt_AnyLevel(all_layers, index, child_level) ==
    /\ index \in DOMAIN all_layers
    /\ all_layers[index].variant = "Group"

\* `if let Some(layer)`, `AsepriteLayer::Group { .. }` and
\* `*child_level == cur_child_level`
IsGroupAt(all_layers, index, child_level) ==
    /\ index \in DOMAIN all_layers
    /\ all_layers[index].variant = "Group"
    /\ all_layers[index].child_level = child_level

\* the inner `loop` of find_layer_belong_groups: cur_index goes down one at a time
\* until a Group of the wanted level is under it. At 0 a build with overflow checks
\* aborts; one without wraps to usize::MAX and keeps going down, so it meets the
\* Group of the wanted level with the highest index, or never ends.
RECURSIVE ScanBack(_, _, _)
ScanBack(all_layers, cur_index, child_level) ==
    IF cur_index = 0
    THEN IF overflow_checks
         THEN Panic("attempt to subtract with overflow")
         ELSE LET hits == {i \in DOMAIN all_layers : IsGroupAt(all_layers, i, child_level)}
              IN  IF hits = {} THEN Diverges ELSE Ok(LastKey(hits))
    ELSE IF IsGroupAt(all_layers, cur_index - 1, child_level)
    THEN Ok(cur_index - 1)
    ELSE ScanBack(all_layers, cur_index - 1, child_level)

\* `'find_all_group: while cur_child_level > 0`
RECURSIVE FindGroups(_, _, _, _)
FindGroups(all_layers, cur_index, cur_child_level, found) ==
    IF cur_child_level = 0
    THEN Ok(found)
    ELSE LET hit == ScanBack(all_layers, cur_index, cur_child_level - 1)
         IN  IF hit.kind # "ok"
             THEN hit
             ELSE FindGroups(all_layers, hit.value, cur_child_level - 1,
                             Append(found, hit.value))

\* Aseprite::find_layer_belong_groups
find_layer_belong_groups(aseprite, index) ==
    IF index \notin DOMAIN aseprite.layers
    THEN Ok(<<>>)
    ELSE FindGroups(aseprite.layers, index, aseprite.layers[index].child_level, <<>>)

-----------------------------------------------------------------------------
(* SpecTree: the layer queries on documents of nested layers *)

\* layers of one document, and the deepest nesting a Layer chunk declares
MaxTreeLayers == 4
MaxDepth == 2

TreeLayers(n) ==
    {[i \in 0 .. n - 1 |->
         AsepriteLayer_new(i, "L", shape[i][1], TRUE, "Normal", {255}, shape[i][2])] :
       shape \in [0 .. n - 1 -> {"Normal", "Group"} \X (0 .. MaxDepth)]}

\* Aseprite::layer_tree
LayerTree ==
    /\ Returned /\ Idle
    /\ query' = [op |-> "layer_tree"]
    /\ result' = [res |-> build_layer_tree(Aseprite.layers), lookups |-> <<>>]
    /\ AssemblyIdle

\* Aseprite::find_layer_belong_groups(index)
FindLayerBelongGroups(index) ==
    /\ Returned /\ Idle
    /\ query' = [op |-> "find_layer_belong_groups", index |-> index]
    /\ result' = [res |-> find_layer_belong_groups(Aseprite, index), lookups |-> <<>>]
    /\ AssemblyIdle

InitTree ==
    /\ raw_header = [width |-> 2, height |-> 2, flags |-> 1]
    /\ consumed = <<>>
    /\ tags = EmptyMap
    /\ \E n \in 0 .. MaxTreeLayers : layers \in TreeLayers(n)
    /\ cels = EmptyMap
    /\ palette = {}
    /\ frame_infos = <<[delay_ms |-> 100]>>
    /\ slices = EmptyMap
    /\ last_chunk_type = [kind |-> "Layer"]
    /\ status = "ok"
    /\ error = NoError
    /\ overflow_checks \in BOOLEAN
    /\ query = NoQuery
    /\ result = NoResult

NextTree ==
    \/ LayerTree
    \/ \E index \in 0 .. MaxTreeLayers : FindLayerBelongGroups(index)
    \/ DropResult

SpecTree == InitTree /\ [][NextTree]_vars

-----------------------------------------------------------------------------
(* SpecTags: from_raw on a stream with one Tags chunk *)

\* the largest frame number a tag names
MaxTagFrame == 2

RawTags ==
    [from : 0 .. MaxTagFrame, to : 0 .. MaxTagFrame,
     anim_direction : {"Forward"}, name : {"t"}]

TagInputs == [kind : {"Tags"}, tags : [1 .. 1 -> RawTags] \cup [1 .. 2 -> RawTags]]

NextTags ==
    \/ \E f \in FrameHeaders : consumed = <<>> /\ BeginFrame(f)
    \/ \E c \in TagInputs : tags = EmptyMap /\ ChunkTags(c)
    \/ Return

SpecTags == Init /\ [][NextTags]_vars

-----------------------------------------------------------------------------
(* SpecPaint: the image queries on documents whose cels have offsets and sizes *)

\* the longest side of a cel of the small documents
MaxCel == 2

BluePixel == <<0, 0, 255, 255>>

\* a colour that names the source index it was read from
Coded(k) == <<k % 256, (k \div 256) % 256, k \div 65536, 255>>

\* pixel blocks of width * height pixels, row after row: every pixel opaque, or
\* every second one fully transparent
PixelBlocks(width, height) ==
    {[k \in 1 .. width * height |-> Coded(k - 1)],
     [k \in 1 .. width * height |-> IF k % 2 = 0 THEN TransparentBlack ELSE Coded(k - 1)]}

RawCels(width, height) ==
    {[kind |-> "Raw", width |-> width, height |-> height, pixels |-> pixels] :
        pixels \in PixelBlocks(width, height)}

\* the bottom layer: a Normal layer with a blue 2x2 cel on the canvas, shown or
\* hidden, a Normal layer without cel, or an empty Group
BottomLayers ==
    LET blue == 0 :> AsepriteCel_new(0, 0, 255,
                       [kind |-> "Raw", width |-> 2, height |-> 2,
                        pixels |-> <<BluePixel, BluePixel, BluePixel, BluePixel>>])
    IN  {[layer |-> AsepriteLayer_new(0, "A", "Normal", visible, "Normal", {255}, 0),
          column |-> blue] : visible \in BOOLEAN}
        \cup {[layer |-> AsepriteLayer_new(0, "A", "Normal", TRUE, "Normal", {255}, 0),
               column |-> EmptyMap],
              [layer |-> AsepriteLayer_new(0, "G", "Group", TRUE, "Normal", {}, 0),
               column |-> EmptyMap]}

\* the top layer: no cel, one Raw cel at an offset around the origin, or that cel
\* and a second one linked to it
TopColumns ==
    LET first == {AsepriteCel_new(x, y, 255, raw_cel) :
                     x \in -1 .. 1, y \in -1 .. 1,
                     raw_cel \in UNION {RawCels(w, h) : w \in 1 .. MaxCel, h \in 1 .. MaxCel}}
        link == AsepriteCel_new(0, 0, 255, [kind |-> "Linked", frame_position |-> 1])
    IN  {EmptyMap} \cup {0 :> cel : cel \in first}
                   \cup {(0 :> cel) @@ (1 :> link) : cel \in first}

TopLayers ==
    {AsepriteLayer_new(1, "B", "Normal", visible, "Normal", {255}, 0) : visible \in BOOLEAN}

\* a cel with more pixels than u16 counts
LargeWidth == 2 ^ 8 + 1
LargeHeight == 2 ^ 8

LargeCel ==
    AsepriteCel_new(0, 0, 255,
        [kind |-> "Raw", width |-> LargeWidth, height |-> LargeHeight,
         pixels |-> [k \in 1 .. LargeWidth * LargeHeight |-> Coded(k - 1)]])

InitPaint ==
    /\ raw_header = [width |-> 2, height |-> 2, flags |-> 1]
    /\ consumed = <<>>
    /\ tags = EmptyMap
    /\ \/ \E bottom \in BottomLayers, top \in TopLayers, column \in TopColumns :
             /\ layers = (0 :> bottom.layer) @@ (1 :> top)
             /\ cels = WithoutEmpty((0 :> bottom.column) @@ (1 :> column))
       \/ /\ layers = 0 :> AsepriteLayer_new(0, "A", "Normal", TRUE, "Normal", {255}, 0)
          /\ cels = 0 :> (0 :> LargeCel)
    /\ palette = {}
    /\ frame_infos = [i \in 1 .. 2 |-> [delay_ms |-> 100]]
    /\ slices = EmptyMap
    /\ last_chunk_type = [kind |-> "ColorProfile"]
    /\ status = "ok"
    /\ error = NoError
    /\ overflow_checks \in BOOLEAN
    /\ query = NoQuery
    /\ result = NoResult

NextPaint ==
    \/ \E layer_index \in 0 .. 1, frame_index \in 0 .. 1 :
          GetImageByLayerFrame(layer_index, frame_index)
    \/ \E frame_index \in 0 .. 1 : ImageForFrame(frame_index)
    \/ DropResult

SpecPaint == InitPaint /\ [][NextPaint]_vars

-----------------------------------------------------------------------------
(* SpecQueries: every query of the document, in any order *)

\* layers of one document
MaxQueryLayers == 2

\* Aseprite::get_layer_by_name: the first layer in key order with that name
get_layer_by_name(aseprite, name) ==
    LET named == {i \in DOMAIN aseprite.layers : aseprite.layers[i].name = name}
    IN  IF named = {} THEN {} ELSE {aseprite.layers[MinKey(named)]}

\* Aseprite::get_layer_by_index
get_layer_by_index(aseprite, index) ==
    IF index \in DOMAIN aseprite.layers THEN {aseprite.layers[index]} ELSE {}

\* a layer at index i: a shown or hidden Normal layer, a shown or hidden Group, or a
\* nested layer
QueryLayers(n) ==
    {[i \in 0 .. n - 1 |->
         AsepriteLayer_new(i, shape[i][1], shape[i][2], shape[i][3], "Normal", {255},
                           shape[i][4])] :
       shape \in [0 .. n - 1 -> {<<"A", "Normal", TRUE, 0>>, <<"B", "Normal", FALSE, 0>>,
                                 <<"A", "Group", TRUE, 0>>, <<"A", "Group", FALSE, 0>>,
                                 <<"B", "Normal", TRUE, 1>>}]}

\* the cels of one layer: none, a block, a block and a link to it, two cels linked
\* to the second, or a link with frame_position 0
QueryColumns ==
    LET block == AsepriteCel_new(0, 0, 255, [kind |-> "Raw", width |-> 1, height |-> 1,
                                             pixels |-> <<RedPixel>>])
        link(n) == AsepriteCel_new(0, 0, 255, [kind |-> "Linked", frame_position |-> n])
    IN  {EmptyMap, 0 :> block, (0 :> block) @@ (1 :> link(1)),
         (0 :> link(2)) @@ (1 :> link(2)), 0 :> link(0)}

\* no slice, or one slice: inside the canvas, or with a negative origin on frame 1
QuerySlices ==
    {EmptyMap} \cup
    {ExtendSlices(EmptyMap, "s", <<raw_slice>>) :
        raw_slice \in {[frame |-> 0, x_origin |-> 0, y_origin |-> 0, width |-> 1,
                        height |-> 1, nine_patch_info |-> {}],
                       [frame |-> 1, x_origin |-> -1, y_origin |-> 0, width |-> 2,
                        height |-> 2, nine_patch_info |-> {}]}}

\* Aseprite::get_cel(&layer_index, &frame_index)
GetCel(layer_index, frame_index) ==
    /\ Returned /\ Idle
    /\ query' = [op |-> "get_cel", layer_index |-> layer_index, frame_index |-> frame_index]
    /\ result' = [res |-> get_cel(Aseprite, layer_index, frame_index), lookups |-> <<>>]
    /\ AssemblyIdle

\* Aseprite::get_layer_by_name(name)
GetLayerByName(name) ==
    /\ Returned /\ Idle
    /\ query' = [op |-> "get_layer_by_name", name |-> name]
    /\ result' = [res |-> Ok(get_layer_by_name(Aseprite, name)), lookups |-> <<>>]
    /\ AssemblyIdle

\* Aseprite::get_layer_by_index(&index)
GetLayerByIndex(index) ==
    /\ Returned /\ Idle
    /\ query' = [op |-> "get_layer_by_index", index |-> index]
    /\ result' = [res |-> Ok(get_layer_by_index(Aseprite, index)), lookups |-> <<>>]
    /\ AssemblyIdle

InitQueries ==
    /\ raw_header = [width |-> 2, height |-> 2, flags |-> 1]
    /\ consumed = <<>>
    /\ tags = EmptyMap
    /\ \E n \in 0 .. MaxQueryLayers :
          /\ layers \in QueryLayers(n)
          /\ \E columns \in [0 .. n - 1 -> QueryColumns] : cels = WithoutEmpty(columns)
    /\ palette = {}
    /\ frame_infos = <<[delay_ms |-> 100], [delay_ms |-> 100]>>
    /\ slices \in QuerySlices
    /\ last_chunk_type = [kind |-> "ColorProfile"]
    /\ status = "ok"
    /\ error = NoError
    /\ overflow_checks \in BOOLEAN
    /\ query = NoQuery
    /\ result = NoResult

NextQueries ==
    \/ \E layer_index \in 0 .. MaxQueryLayers, frame_index \in 0 .. 2 :
          \/ GetCel(layer_index, frame_index)
          \/ GetImageByLayerFrame(layer_index, frame_index)
    \/ \E name \in {"A", "B", "C"} : GetLayerByName(name)
    \/ \E index \in 0 .. MaxQueryLayers :
          \/ GetLayerByIndex(index)
          \/ FindLayerBelongGroups(index)
    \/ \E frame_index \in 0 .. 2 : ImageForFrame(frame_index)
    \/ \E name \in DOMAIN slices : GetImages(<<slices[name]>>)
    \/ DropResult

SpecQueries == InitQueries /\ [][NextQueries]_vars

-----------------------------------------------------------------------------
(* SpecCels: from_raw on a stream of frame records that carry Cel chunks *)

\* Cel chunks for two layers, told apart by their x offset and their pixel source
CelInputs ==
    [kind : {"Cel"}, layer_index : {0, 1}, x : 0 .. 2, y : {0}, opacity : {255},
     cel : {RawCel}]

NextCels ==
    \/ \E f \in FrameHeaders : BeginFrame(f)
    \/ \E c \in CelInputs : ChunkCel(c)
    \/ Return

SpecCels == Init /\ [][NextCels]_vars

-----------------------------------------------------------------------------
(* SpecLayers: from_raw on a stream of Layer chunks *)

\* Layer chunks with every combination of the two low flag bits
LayerInputs ==
    [kind : {"Layer"}, flags : 0 .. 3, layer_type : {"Normal", "Group"},
     layer_child : {0}, blend_mode : {"SoftLight"}, opacity : {128}, name : {"L"}]

NextLayers ==
    \/ \E f \in FrameHeaders : consumed = <<>> /\ BeginFrame(f)
    \/ \E c \in LayerInputs : ChunkLayer(c)
    \/ Return

SpecLayers == Init /\ [][NextLayers]_vars

-----------------------------------------------------------------------------
(* Properties of from_raw, under Spec *)

LastItem == consumed[Len(consumed)]

\* the chunks folded so far, in arrival order
Folded == Chunks(consumed)

\* this step folds a chunk of the given kinds
FoldsChunk(kinds) ==
    /\ Len(consumed') = Len(consumed) + 1
    /\ consumed'[Len(consumed')].kind \in kinds

FoldedData == consumed'[Len(consumed')].data

\* the number of tags declared by the Tags chunks among the first n chunks of cs
RECURSIVE TagsDeclared(_, _)
TagsDeclared(cs, n) ==
    IF n = 0 THEN 0
    ELSE TagsDeclared(cs, n - 1) + (IF cs[n].kind = "Tags" THEN Len(cs[n].tags) ELSE 0)

OfKind(cs, kind) == SelectSeq(cs, LAMBDA e : e.kind = kind)

MaxKey(m) == CHOOSE k \in DOMAIN m : \A x \in DOMAIN m : x <= k

\* C1: a Tags chunk declaring n tags and followed by UserData chunks: the j-th of
\* them (j < n) has set the color and annotation of the j-th tag declared by that
\* chunk, whose global index is start + j; right after it the cursor is
\* start + j + 1 and the tags declared after the j-th still carry no annotation.
C1_TagsUserDataInOrder ==
    LET cs == Folded
    IN  \A p \in 1 .. Len(cs) :
          cs[p].kind = "Tags" =>
            LET n == Len(cs[p].tags)
                start == TagsDeclared(cs, p - 1)
            IN  \A j \in 0 .. n - 1 :
                  (/\ p + 1 + j <= Len(cs)
                   /\ \A i \in 1 .. j + 1 : cs[p + i].kind = "UserData")
                  => /\ start + j \in DOMAIN tags
                     /\ tags[start + j].name = cs[p].tags[j + 1].name
                     /\ tags[start + j].color = cs[p + 1 + j].data.color
                     /\ tags[start + j].user_data = cs[p + 1 + j].data.text
                     /\ p + 1 + j = Len(cs)
                        => /\ status = "running" \/ status = "ok"
                           /\ last_chunk_type =
                                 [kind |-> "Tags", cur_index |-> start + j + 1]
                           /\ \A k \in j + 1 .. n - 1 :
                                 /\ tags[start + k].color = DefaultColor
                                 /\ tags[start + k].user_data = EmptyString

\* a Tags chunk of two tags after an earlier tag, then two different UserData chunks
C1_Witness ==
    LET cs == Folded
    IN  /\ Len(cs) = 4
        /\ cs[1].kind = "Tags" /\ Len(cs[1].tags) = 1
        /\ cs[2].kind = "Tags" /\ Len(cs[2].tags) = 2
        /\ cs[3].kind = "UserData" /\ cs[4].kind = "UserData"
        /\ cs[3].data # cs[4].data
        /\ tags[0].user_data = EmptyString
        /\ tags[1].user_data = cs[3].data.text
        /\ tags[2].user_data = cs[4].data.text
        /\ last_chunk_type = [kind |-> "Tags", cur_index |-> 3]

\* C2: a UserData chunk folded while the target is the last Layer sets the color and
\* annotation of the layer with the highest index, the one of the most recent Layer
\* chunk, and of nothing else; the target stays the last Layer.
C2_UserDataOnLastLayer ==
    [][ (FoldsChunk({"UserData"}) /\ last_chunk_type.kind = "Layer")
        => /\ layers # EmptyMap
           /\ MaxKey(layers) = Len(OfKind(Folded, "Layer")) - 1
           /\ layers' = [layers EXCEPT ![MaxKey(layers)] =
                            [@ EXCEPT !.color = FoldedData.color,
                                      !.user_data = FoldedData.text]]
           /\ last_chunk_type' = [kind |-> "Layer"]
           /\ UNCHANGED <<cels, tags>>
           /\ status' = "running" ]_vars

\* two layers, the annotation went to the second
C2_Witness ==
    /\ consumed # <<>>
    /\ LastItem.kind = "UserData"
    /\ last_chunk_type.kind = "Layer"
    /\ DOMAIN layers = {0, 1}
    /\ layers[0].user_data = EmptyString
    /\ layers[1].user_data = LastItem.data.text
    /\ layers[1].color = LastItem.data.color

\* the layer index of the most recent Cel chunk, and how many Cel chunks were for it
LastCelChunk == LET cc == OfKind(Folded, "Cel") IN cc[Len(cc)]
CelChunksFor(layer_index) ==
    Len(SelectSeq(OfKind(Folded, "Cel"), LAMBDA e : e.layer_index = layer_index))

\* C3: a UserData chunk folded while the target is the Cel cursor (layer, frame) sets
\* the color and annotation of the cel stored at that layer index and per-layer frame
\* index, which is the cel of the most recent Cel chunk, and of nothing else.
C3_UserDataOnCelCursor ==
    [][ (FoldsChunk({"UserData"}) /\ last_chunk_type.kind = "Cel")
        => LET l == last_chunk_type.layer_index
               f == last_chunk_type.frame_index
           IN  /\ l = LastCelChunk.layer_index
               /\ f = CelChunksFor(l) - 1
               /\ l \in DOMAIN cels /\ f \in DOMAIN cels[l]
               /\ cels' = [cels EXCEPT ![l][f] =
                              [@ EXCEPT !.color = FoldedData.color,
                                        !.user_data = FoldedData.text]]
               /\ UNCHANGED <<layers, tags, last_chunk_type>>
               /\ status' = "running" ]_vars

\* a layer with two cels and another layer with one; the annotation went to the latest
C3_Witness ==
    /\ consumed # <<>>
    /\ LastItem.kind = "UserData"
    /\ last_chunk_type = [kind |-> "Cel", layer_index |-> 1, frame_index |-> 1]
    /\ DOMAIN cels = {0, 1}
    /\ cels[1][1].user_data = LastItem.data.text
    /\ cels[1][0].user_data = EmptyString
    /\ cels[0][0].user_data = EmptyString

\* C4: a UserData chunk folded while the target is no Layer, Tags cursor or Cel cursor
\* (Palette, Slice, or nothing yet) is dropped: layers, cels, tags, slices, palette and
\* the target stay as they are and the fold goes on.
C4_OrphanUserDataDropped ==
    [][ (FoldsChunk({"UserData"}) /\ last_chunk_type.kind \notin {"Layer", "Tags", "Cel"})
        => /\ UNCHANGED <<layers, cels, tags, slices, palette, last_chunk_type>>
           /\ status' = "running" ]_vars

\* a UserData chunk after a Palette chunk, with a layer in the document
C4_Witness ==
    /\ consumed # <<>>
    /\ LastItem.kind = "UserData"
    /\ last_chunk_type.kind = "Palette"
    /\ status = "running"
    /\ layers # EmptyMap
    /\ \A i \in DOMAIN layers : layers[i].user_data = EmptyString

\* C5: from_raw ends with a Document or with an error value; no chunk sequence makes
\* it abort on an unchecked access (an unwrap of a missing entry, an index out of
\* bounds).
C5_NoUncheckedAbort ==
    status = "panic" => error.kind \notin {"unwrap on None", "index out of bounds"}

\* C6: a CelExtra or ColorProfile chunk does not abort the fold: after it from_raw is
\* still running, or has returned the Document.
C6_UnsupportedChunkContinues ==
    (consumed # <<>> /\ LastItem.kind \in {"CelExtra", "ColorProfile"})
    => status \in {"running", "ok"}

\* C7: after any prefix holding n Layer chunks the layer map has the keys 0 .. n-1,
\* and the layer under key i was built from the i-th Layer chunk and has index i.
C7_LayerKeysDense ==
    LET lc == OfKind(Folded, "Layer")
    IN  /\ DOMAIN layers = 0 .. Len(lc) - 1
        /\ \A i \in DOMAIN layers :
              /\ layers[i].index = i
              /\ layers[i].variant = lc[i + 1].layer_type
              /\ layers[i].name = lc[i + 1].name
              /\ layers[i].visible = (lc[i + 1].flags % 2 # 0)
              /\ layers[i].child_level = lc[i + 1].layer_child

\* three layers of which the first two differ in variant and visibility
C7_Witness ==
    /\ DOMAIN layers = {0, 1, 2}
    /\ layers[0].variant # layers[1].variant
    /\ layers[0].visible # layers[1].visible
    /\ layers[2].index = 2

-----------------------------------------------------------------------------
(* Properties of the image queries, under SpecRender *)

IsLinked(cel) == cel.raw_cel.kind = "Linked"

HasCel(l, f) == l \in DOMAIN cels /\ f \in DOMAIN cels[l]

\* the cel at (l, f) is Linked and the cel at (l, frame_position - 1) is Linked too
DoubleLinked(l, f) ==
    /\ HasCel(l, f)
    /\ IsLinked(cels[l][f])
    /\ HasCel(l, cels[l][f].raw_cel.frame_position - 1)
    /\ IsLinked(cels[l][cels[l][f].raw_cel.frame_position - 1])

\* the error a double link is reported with: it carries the second frame_position
IntegrityViolation(l, f) ==
    Err(InvalidConfiguration(
          cels[l][cels[l][f].raw_cel.frame_position - 1].raw_cel.frame_position))

LookupsOf(l) == SelectSeq(result.lookups, LAMBDA e : e[1] = l)

AtMostOneHop ==
    query.op \in {"get_image_by_layer_frame", "image_for_frame"}
    => \A l \in 0 .. MaxLayers : Len(LookupsOf(l)) <= 2

\* C8 as worded: for every layer and frame whose cel is Linked to a Linked cel,
\* get_image_by_layer_frame returns the integrity-violation error and
\* image_for_frame of that frame returns an error instead of an image; neither
\* looks up a third cel of a layer.
C8_DoubleLinkAlwaysError ==
    /\ AtMostOneHop
    /\ query.op = "get_image_by_layer_frame"
       => (DoubleLinked(query.layer_index, query.frame_index)
           => result.res = IntegrityViolation(query.layer_index, query.frame_index))
    /\ query.op = "image_for_frame"
       => \A l \in DOMAIN layers :
             DoubleLinked(l, query.frame_index) => result.res.kind = "err"

\* the document with the layers below layer l only
Below(aseprite, l) ==
    [aseprite EXCEPT !.layers = [k \in {j \in DOMAIN aseprite.layers : j < l} |->
                                   aseprite.layers[k]]]

\* C8 amended: get_image_by_layer_frame as worded; image_for_frame returns no image
\* when the layer of the double link is visible, and the integrity-violation error
\* of that layer when the layers below it render without failure; an invisible
\* layer is skipped before its cel is looked up.
C8_DoubleLinkErrorWhenVisible ==
    /\ AtMostOneHop
    /\ query.op = "get_image_by_layer_frame"
       => (DoubleLinked(query.layer_index, query.frame_index)
           => result.res = IntegrityViolation(query.layer_index, query.frame_index))
    /\ query.op = "image_for_frame"
       => \A l \in DOMAIN layers :
             /\ (DoubleLinked(l, query.frame_index) /\ layers[l].visible)
                => /\ result.res.kind # "ok"
                   /\ image_for_frame(Below(Aseprite, l), query.frame_index).res.kind = "ok"
                      => result.res = IntegrityViolation(l, query.frame_index)
             /\ ~layers[l].visible => LookupsOf(l) = <<>>

\* rendering a frame where a visible layer painted below a visible double-linked one:
\* the error comes back, not the partly painted image
C8_Witness ==
    /\ query.op = "image_for_frame"
    /\ DOMAIN layers = {0, 1}
    /\ layers[0].visible /\ layers[1].visible
    /\ HasCel(0, query.frame_index) /\ ~IsLinked(cels[0][query.frame_index])
    /\ DoubleLinked(1, query.frame_index)
    /\ result.res = IntegrityViolation(1, query.frame_index)
    /\ Len(LookupsOf(1)) = 2

\* the document without layer L: the layers above it and their cels move down by one
RemoveLayer(aseprite, L) ==
    LET Up(j) == IF j >= L THEN j + 1 ELSE j
        n == MapLen(aseprite.layers)
    IN  [aseprite EXCEPT
           !.layers = [j \in 0 .. n - 2 |-> [aseprite.layers[Up(j)] EXCEPT !.index = j]],
           !.cels = [j \in {k \in 0 .. n - 2 : Up(k) \in DOMAIN aseprite.cels} |->
                        aseprite.cels[Up(j)]]]

\* C9: for every frame f and every layer L whose visibility flag is false, rendering
\* f gives what rendering f on the document without L and its cels gives.
C9_InvisibleLayerAsRemoved ==
    query.op = "image_for_frame"
    => \A L \in DOMAIN layers :
          ~layers[L].visible
          => image_for_frame(RemoveLayer(Aseprite, L), query.frame_index).res = result.res

\* an invisible layer with pixels at the frame under a visible layer without a cel
\* there: the frame stays transparent
C9_Witness ==
    /\ query.op = "image_for_frame"
    /\ DOMAIN layers = {0, 1}
    /\ ~layers[0].visible /\ layers[1].visible
    /\ HasCel(0, query.frame_index) /\ ~IsLinked(cels[0][query.frame_index])
    /\ ~HasCel(1, query.frame_index) /\ HasCel(1, 0)
    /\ result.res = Ok(RgbaImage_new(2, 2))

-----------------------------------------------------------------------------
(* Properties of get_images, under SpecSlice *)

\* get_images has returned the images of one slice with a nine-patch descriptor
Cut ==
    /\ query.op = "get_images"
    /\ result.res.kind = "ok"
    /\ query.wanted[1].nine_patch_info # {}

CutSlice == query.wanted[1]
CutInfo == CHOOSE info \in CutSlice.nine_patch_info : TRUE
CutImage == result.res.value[1].image
CutRegions == CHOOSE regions \in result.res.value[1].nine_slices : TRUE

\* the rectangle [r[1], r[2]) x [r[3], r[4]) of each region, as the table of the
\* partition gives it
Rectangles(cx, cy, cw, ch, W, H) ==
    LET Left == <<0, cx>>
        Mid == <<cx, cx + cw>>
        Right == <<cx + cw, W>>
        Top == <<0, cy>>
        Middle == <<cy, cy + ch>>
        Bottom == <<cy + ch, H>>
    IN  [n \in NineSlice |->
           CASE n = "TopLeft" -> Left \o Top
             [] n = "TopCenter" -> Mid \o Top
             [] n = "TopRight" -> Right \o Top
             [] n = "LeftCenter" -> Left \o Middle
             [] n = "Center" -> Mid \o Middle
             [] n = "RightCenter" -> Right \o Middle
             [] n = "BottomLeft" -> Left \o Bottom
             [] n = "BottomCenter" -> Mid \o Bottom
             [] n = "BottomRight" -> Right \o Bottom]

TableRectangles ==
    Rectangles(CutInfo.x_center, CutInfo.y_center, CutInfo.width, CutInfo.height,
               CutSlice.width, CutSlice.height)

\* a rectangle cut off at the right and bottom edge of a W x H image
Clip(r, W, H) == <<Min(r[1], W), Min(r[2], W), Min(r[3], H), Min(r[4], H)>>

Points(r) == (r[1] .. r[2] - 1) \X (r[3] .. r[4] - 1)

\* the region image is the copy of rectangle r of the slice image
ShowsRect(region, image, r) ==
    /\ region.width = r[2] - r[1]
    /\ region.height = r[4] - r[3]
    /\ \A p \in DOMAIN region.pixels :
          /\ <<p[1] + r[1], p[2] + r[3]>> \in DOMAIN image.pixels
          /\ region.pixels[p] = image.pixels[<<p[1] + r[1], p[2] + r[3]>>]

RECURSIVE AreaSum(_, _)
AreaSum(regions, names) ==
    IF names = {} THEN 0
    ELSE LET n == CHOOSE x \in names : TRUE
         IN  regions[n].width * regions[n].height + AreaSum(regions, names \ {n})

Colours(region) == {region.pixels[p] : p \in DOMAIN region.pixels}

\* the regions are the rectangles rects, which do not overlap, and their areas add
\* up to area; no pixel of the painted canvas is in two regions
TilesWith(rects, area) ==
    /\ \A n \in NineSlice : ShowsRect(CutRegions[n], CutImage, rects[n])
    /\ \A n, m \in NineSlice : n # m => Points(rects[n]) \cap Points(rects[m]) = {}
    /\ \A n, m \in NineSlice : n # m => Colours(CutRegions[n]) \cap Colours(CutRegions[m]) = {}
    /\ AreaSum(CutRegions, NineSlice) = area

DescriptorInside ==
    /\ 0 <= CutInfo.x_center /\ CutInfo.x_center + CutInfo.width <= CutSlice.width
    /\ 0 <= CutInfo.y_center /\ CutInfo.y_center + CutInfo.height <= CutSlice.height

\* what the canvas leaves of a slice side that starts at origin, clamped to 0
Kept(origin, side, canvas) == Min(side, canvas - Min(Max(origin, 0), canvas))

Sliced == query # NoQuery /\ query.op = "get_images"

\* what image_for_frame gives at the frame of the slice
SliceFrame == image_for_frame(Aseprite, query.wanted[1].valid_frame).res

SliceImage == result.res.value[1].image

\* an origin component with a negative value taken as 0
AtEdge(origin) == IF origin < 0 THEN 0 ELSE origin

\* the image shows the rectangle of the frame whose top-left corner is (x, y)
ShowsFrameAt(image, frame, x, y) ==
    /\ DOMAIN image.pixels = (0 .. image.width - 1) \X (0 .. image.height - 1)
    /\ \A p \in DOMAIN image.pixels :
          /\ <<p[1] + x, p[2] + y>> \in DOMAIN frame.pixels
          /\ image.pixels[p] = frame.pixels[<<p[1] + x, p[2] + y>>]

\* C18 as worded: the slice image get_images returns is the rectangle of the merged
\* frame at slice.valid_frame with top-left (max(ox,0), max(oy,0)) and size (w, h).
C18_CropHasSliceSize ==
    (Sliced /\ result.res.kind = "ok")
    => /\ SliceImage.width = CutSlice.width
       /\ SliceImage.height = CutSlice.height
       /\ ShowsFrameAt(SliceImage, SliceFrame.value,
                       AtEdge(CutSlice.position_x), AtEdge(CutSlice.position_y))

\* what the canvas holds of a side of the rectangle that starts at x
OnCanvas(x, side, canvas) ==
    IF x >= canvas THEN 0 ELSE IF x + side > canvas THEN canvas - x ELSE side

\* C18 amended: get_images renders the merged frame at slice.valid_frame and passes
\* its failure on; otherwise the slice image it returns is the part on the canvas of
\* the rectangle with top-left (max(ox,0), max(oy,0)) and size (w, h), and for a
\* slice without nine-patch descriptor it always returns; a negative origin
\* component counts as 0 and is no error.
C18_CropIsRectangleOnCanvas ==
    Sliced
    => LET x == AtEdge(CutSlice.position_x)
           y == AtEdge(CutSlice.position_y)
       IN  /\ SliceFrame.kind # "ok" => result.res = SliceFrame
           /\ (SliceFrame.kind = "ok" /\ CutSlice.nine_patch_info = {})
              => result.res.kind = "ok"
           /\ result.res.kind = "ok"
              => /\ SliceFrame.kind = "ok"
                 /\ SliceImage.width = OnCanvas(x, CutSlice.width, raw_header.width)
                 /\ SliceImage.height = OnCanvas(y, CutSlice.height, raw_header.height)
                 /\ ShowsFrameAt(SliceImage, SliceFrame.value, x, y)

\* a 2x2 slice whose origin is (-1, -1) gave the top-left 2x2 block of the canvas
C18_Witness ==
    /\ Sliced
    /\ CutSlice.position_x = -1 /\ CutSlice.position_y = -1
    /\ CutSlice.width = 2 /\ CutSlice.height = 2
    /\ result.res.kind = "ok"
    /\ SliceImage.pixels = (<<0, 0>> :> <<0, 0, 0, 255>> @@ <<1, 0>> :> <<1, 0, 0, 255>>
                            @@ <<0, 1>> :> <<0, 1, 0, 255>> @@ <<1, 1>> :> <<1, 1, 0, 255>>)

-----------------------------------------------------------------------------
(* Properties of AsepritePalette::from_raw, under SpecPalette *)

\* the table the contract describes for a Palette chunk
ContractTable(c) ==
    [i \in 1 .. c.palette_size |->
        IF i - 1 >= c.from_color /\ i - 1 < c.from_color + Len(c.entries)
        THEN c.entries[i - c.from_color].color
        ELSE TransparentBlack]

\* C11: for every palette_size, from_color and list of explicit entries from_raw
\* returns a table of palette_size entries: position from_color + k holds the k-th
\* explicit entry, every position before from_color or from from_color + len(entries)
\* on is transparent black.
C11_PaletteTable ==
    (consumed # <<>> /\ LastItem.kind = "Palette")
    => /\ status # "panic"
       /\ palette = {[entries |-> ContractTable(LastItem)]}

-----------------------------------------------------------------------------
(* Properties of the layer queries, under SpecTree *)

LevelOf(i) == layers[i].child_level

\* the deepest level layer i may declare: one below a Group right before it, the
\* level of a Normal layer right before it, 0 for the first layer
DeepestAt(i) ==
    IF i = 0 THEN 0
    ELSE IF layers[i - 1].variant = "Group" THEN LevelOf(i - 1) + 1
    ELSE LevelOf(i - 1)

\* the nesting guarantee of the format, for the first n layers
NestedUpTo(n) == \A i \in 0 .. n - 1 : LevelOf(i) <= DeepestAt(i)

WellNested == NestedUpTo(MapLen(layers))

\* depth-first, children in ascending key order: node, then what is under it
RECURSIVE Flatten(_, _, _)
Flatten(tree, path, keys) ==
    IF keys = {}
    THEN <<>>
    ELSE LET at == Append(path, MinKey(keys))
         IN  <<[layer |-> tree[at].layer, variant |-> tree[at].variant,
                key |-> MinKey(keys), depth |-> Len(path)]>>
             \o Flatten(tree, at, ChildKeys(tree, at))
             \o Flatten(tree, path, keys \ {MinKey(keys)})

FlatLayers ==
    [i \in 1 .. MapLen(layers) |->
        [layer |-> layers[i - 1], variant |-> layers[i - 1].variant,
         key |-> i - 1, depth |-> LevelOf(i - 1)]]

TreeBuilt == query.op = "layer_tree"

\* C12: for every well-nested layer sequence, flattening the tree build_layer_tree
\* returns gives the flat sequence back: every layer once, in index order, as a
\* Group node or Normal leaf of its variant, at the depth of its child_level.
C12_FlattenGivesLayers ==
    (TreeBuilt /\ WellNested)
    => /\ result.res.kind = "ok"
       /\ Flatten(result.res.value, <<>>, ChildKeys(result.res.value, <<>>)) = FlatLayers

\* a Group in a Group with a leaf inside, and a leaf after them at level 1
C12_Witness ==
    /\ TreeBuilt
    /\ WellNested
    /\ MapLen(layers) = 4
    /\ layers[0].variant = "Group" /\ layers[1].variant = "Group"
    /\ LevelOf(1) = 1 /\ LevelOf(2) = 2 /\ LevelOf(3) = 1
    /\ layers[2].variant = "Normal" /\ layers[3].variant = "Normal"
    /\ result.res.kind = "ok"
    /\ DOMAIN result.res.value = {<<0>>, <<0, 1>>, <<0, 1, 2>>, <<0, 3>>}

Reverse(s) == [i \in 1 .. Len(s) |-> s[Len(s) + 1 - i]]

\* the keys of the Group nodes above layer X in the tree, innermost first
AncestorsInTree(tree, X) ==
    LET path == CHOOSE p \in DOMAIN tree : p[Len(p)] = X
    IN  Reverse(SubSeq(path, 1, Len(path) - 1))

GroupsFound == query.op = "find_layer_belong_groups" /\ query.index \in DOMAIN layers

\* C13: for every well-nested layer sequence and every layer X of child_level d,
\* find_layer_belong_groups(X) returns d group indices, innermost first, and they
\* are the Group nodes above X in the tree build_layer_tree builds.
C13_GroupsAreTreeAncestors ==
    (GroupsFound /\ WellNested)
    => /\ result.res.kind = "ok"
       /\ Len(result.res.value) = LevelOf(query.index)
       /\ \A i \in 1 .. Len(result.res.value) :
             /\ layers[result.res.value[i]].variant = "Group"
             /\ LevelOf(result.res.value[i]) = LevelOf(query.index) - i
       /\ build_layer_tree(layers).kind = "ok"
       /\ result.res.value = AncestorsInTree(build_layer_tree(layers).value, query.index)

\* a leaf two Groups deep, behind a sibling leaf: the scan passes the sibling
C13_Witness ==
    /\ GroupsFound
    /\ WellNested
    /\ MapLen(layers) = 4
    /\ query.index = 3
    /\ layers[2].variant = "Normal" /\ LevelOf(2) = 2 /\ LevelOf(3) = 2
    /\ result.res = Ok(<<1, 0>>)

\* the first layer that breaks the nesting guarantee
FirstBroken == CHOOSE i \in DOMAIN layers : ~NestedUpTo(i + 1) /\ NestedUpTo(i)

\* what the walk for that layer meets: nothing to follow (the tree is empty, or the
\* Group before it has no entry yet), or the Normal leaf before it
MeetsEmptyLevel == FirstBroken = 0 \/ layers[FirstBroken - 1].variant = "Group"

\* C19: for every layer sequence that breaks the nesting guarantee build_layer_tree
\* aborts at the first layer whose walk meets an empty level or a Normal leaf and
\* returns no tree: the layer is inserted nowhere.
C19_BrokenNestingFailsFast ==
    (TreeBuilt /\ ~WellNested)
    => /\ result.res.kind = "panic"
       /\ result.res.layer = FirstBroken
       /\ result.res.cause = IF MeetsEmptyLevel THEN "unwrap on None"
                             ELSE "entered unreachable code"

\* a Group, a Normal leaf in it, and a layer that declares the leaf as its parent
C19_Witness ==
    /\ TreeBuilt
    /\ MapLen(layers) >= 3
    /\ layers[0].variant = "Group" /\ LevelOf(0) = 0
    /\ layers[1].variant = "Normal" /\ LevelOf(1) = 1
    /\ LevelOf(2) = 2
    /\ result.res = [kind |-> "panic", cause |-> "entered unreachable code", layer |-> 2]

-----------------------------------------------------------------------------
(* Properties of the Tags arm, under SpecTags *)

TagsFolded == consumed # <<>> /\ LastItem.kind = "Tags"

\* C14: every tag entry (from, to) is stored with the half-open range from..to, both
\* bounds unchanged; from = to gives an empty range and no error, so (1, 1) is stored
\* as [1, 1) and differs from [0, 0).
C14_TagRangeKept ==
    TagsFolded
    => /\ status \in {"running", "ok"}
       /\ DOMAIN tags = 0 .. Len(LastItem.tags) - 1
       /\ \A k \in DOMAIN tags :
             /\ tags[k].frames.start = LastItem.tags[k + 1].from
             /\ tags[k].frames.end = LastItem.tags[k + 1].to
       /\ \A j, k \in DOMAIN tags :
             tags[j].frames = tags[k].frames
             <=> (/\ LastItem.tags[j + 1].from = LastItem.tags[k + 1].from
                  /\ LastItem.tags[j + 1].to = LastItem.tags[k + 1].to)

\* one chunk declares (1, 1) and (0, 0): both are stored, as different ranges
C14_Witness ==
    /\ TagsFolded
    /\ status = "ok"
    /\ Len(LastItem.tags) = 2
    /\ LastItem.tags[1].from = 1 /\ LastItem.tags[1].to = 1
    /\ LastItem.tags[2].from = 0 /\ LastItem.tags[2].to = 0
    /\ tags[0].frames = [start |-> 1, end |-> 1]
    /\ tags[1].frames = [start |-> 0, end |-> 0]

-----------------------------------------------------------------------------
(* Properties of image_for_frame and get_image_by_layer_frame, under SpecPaint *)

\* the cel whose pixels a cel shows: itself, or the cel its link names
Shown(l, f) ==
    LET cel == cels[l][f]
    IN  IF cel.raw_cel.kind = "Linked" THEN cels[l][cel.raw_cel.frame_position - 1].raw_cel
        ELSE cel.raw_cel

\* source-over for the colours of the documents: an opaque colour covers, a fully
\* transparent one leaves the canvas
Over(canvas, colour) == IF colour[4] = 255 THEN colour ELSE canvas

\* the canvas after the layers below n were painted at frame f: pixel (i, j) of a cel
\* lands on (cel.x + i, cel.y + j), and what lands outside the canvas is clipped
RECURSIVE Merged(_, _)
Merged(n, f) ==
    IF n = 0
    THEN [p \in (0 .. raw_header.width - 1) \X (0 .. raw_header.height - 1) |->
             <<0, 0, 0, 0>>]
    ELSE LET l == n - 1
             under == Merged(l, f)
         IN  IF ~(layers[l].visible /\ HasCel(l, f))
             THEN under
             ELSE LET cel == cels[l][f]
                      block == Shown(l, f)
                  IN  [p \in DOMAIN under |->
                         LET i == p[1] - cel.x
                             j == p[2] - cel.y
                         IN  IF i \in 0 .. block.width - 1 /\ j \in 0 .. block.height - 1
                             THEN Over(under[p], block.pixels[i + j * block.width + 1])
                             ELSE under[p]]

\* C15: for every document and frame, image_for_frame returns an image of the canvas
\* size that is the transparent canvas with the cel of every visible layer painted
\* on it in ascending layer order at the cel's offset; layers without cel at the
\* frame paint nothing.
C15_MergedFrameIsPainting ==
    (query # NoQuery /\ query.op = "image_for_frame")
    => /\ result.res.kind = "ok"
       /\ result.res.value.width = raw_header.width
       /\ result.res.value.height = raw_header.height
       /\ result.res.value.pixels = Merged(Cardinality(DOMAIN layers), query.frame_index)

\* C17: get_image_by_layer_frame on a cel that is Raw or Compressed, or Linked to
\* such a cel, returns an image of the width and height of the block shown in which
\* pixel (i, j) is the colour of source pixel i + j * width; the offset of the cel
\* is not applied.
C17_LayerImageIsBlock ==
    (/\ query # NoQuery
     /\ query.op = "get_image_by_layer_frame"
     /\ HasCel(query.layer_index, query.frame_index))
    => LET block == Shown(query.layer_index, query.frame_index)
       IN  /\ result.res.kind = "ok"
           /\ result.res.value.width = block.width
           /\ result.res.value.height = block.height
           /\ \A i \in 0 .. block.width - 1 : \A j \in 0 .. block.height - 1 :
                 result.res.value.pixels[<<i, j>>] = block.pixels[i + j * block.width + 1]

-----------------------------------------------------------------------------
(* Properties of the queries as a whole, under SpecQueries *)

\* the value the query q returns on the document as it is now
Answer(q) ==
    CASE q.op = "get_cel" ->
           [res |-> get_cel(Aseprite, q.layer_index, q.frame_index), lookups |-> <<>>]
      [] q.op = "get_layer_by_name" ->
           [res |-> Ok(get_layer_by_name(Aseprite, q.name)), lookups |-> <<>>]
      [] q.op = "get_layer_by_index" ->
           [res |-> Ok(get_layer_by_index(Aseprite, q.index)), lookups |-> <<>>]
      [] q.op = "find_layer_belong_groups" ->
           [res |-> find_layer_belong_groups(Aseprite, q.index), lookups |-> <<>>]
      [] q.op = "get_image_by_layer_frame" ->
           get_image_by_layer_frame(Aseprite, q.layer_index, q.frame_index)
      [] q.op = "image_for_frame" -> image_for_frame(Aseprite, q.frame_index)
      [] q.op = "get_images" ->
           [res |-> get_images(Aseprite, q.wanted, <<>>), lookups |-> <<>>]

-----------------------------------------------------------------------------
(* Properties of the Cel arm, under SpecCels *)

\* the Cel chunks for a layer, in arrival order
CelChunksOf(layer_index) ==
    SelectSeq(OfKind(Folded, "Cel"), LAMBDA e : e.layer_index = layer_index)

\* C20: after any prefix of the stream, a layer index that received m Cel chunks has a
\* cel collection with exactly the keys 0 .. m - 1 (none for m = 0), the cel at key k
\* is the one built from the k-th Cel chunk for the layer in arrival order, whichever
\* frame record carried it, and right after a Cel chunk for layer L the cursor is
\* (L, k) with k the key of its cel.
C20_CelKeysInArrivalOrder ==
    /\ \A L \in 0 .. 1 :
          LET chunks == CelChunksOf(L)
              m == Len(chunks)
          IN  /\ m = 0 => L \notin DOMAIN cels
              /\ m > 0 =>
                   /\ L \in DOMAIN cels
                   /\ DOMAIN cels[L] = 0 .. m - 1
                   /\ \A k \in 0 .. m - 1 :
                         cels[L][k] = [x |-> chunks[k + 1].x, y |-> chunks[k + 1].y,
                                       opacity |-> chunks[k + 1].opacity,
                                       raw_cel |-> chunks[k + 1].cel,
                                       color |-> DefaultColor, user_data |-> EmptyString]
    /\ (consumed # <<>> /\ LastItem.kind = "Cel")
       => last_chunk_type = [kind |-> "Cel", layer_index |-> LastItem.layer_index,
                             frame_index |-> Len(CelChunksOf(LastItem.layer_index)) - 1]

\* the second frame record carries the first cel of layer 0 and the second of layer 1
C20_Witness ==
    /\ Len(consumed) = 5
    /\ consumed[1].kind = "Frame" /\ consumed[3].kind = "Frame"
    /\ consumed[2].kind = "Cel" /\ consumed[2].layer_index = 1 /\ consumed[2].x = 1
    /\ consumed[4].kind = "Cel" /\ consumed[4].layer_index = 0 /\ consumed[4].x = 2
    /\ consumed[5].kind = "Cel" /\ consumed[5].layer_index = 1 /\ consumed[5].x = 0
    /\ DOMAIN cels[0] = {0} /\ cels[0][0].x = 2
    /\ DOMAIN cels[1] = {0, 1} /\ cels[1][0].x = 1 /\ cels[1][1].x = 0
    /\ last_chunk_type = [kind |-> "Cel", layer_index |-> 1, frame_index |-> 1]

-----------------------------------------------------------------------------
(* Properties of the UserData arm, under Spec *)

\* two entities that differ at most in color and user_data
SameButAnnotation(before, after) ==
    [before EXCEPT !.color = after.color, !.user_data = after.user_data] = after

\* the layers, tags and cels whose value this step changes
Annotated ==
    {<<"layer", i>> : i \in {k \in DOMAIN layers : layers'[k] # layers[k]}}
    \cup {<<"tag", i>> : i \in {k \in DOMAIN tags : tags'[k] # tags[k]}}
    \cup UNION {{<<"cel", l, f>> : f \in {k \in DOMAIN cels[l] : cels'[l][k] # cels[l][k]}} :
                 l \in DOMAIN cels}

\* C23: a UserData step changes at most the color and user_data of one layer, tag or
\* cel that exists already, and the Tags cursor; every other field of every layer,
\* cel and tag, the keys of the layer, cel and tag maps, and the slices stay as they
\* are.
C23_UserDataOnlyAnnotates ==
    [][ FoldsChunk({"UserData"})
        => /\ DOMAIN layers' = DOMAIN layers
           /\ \A i \in DOMAIN layers : SameButAnnotation(layers[i], layers'[i])
           /\ DOMAIN tags' = DOMAIN tags
           /\ \A i \in DOMAIN tags : SameButAnnotation(tags[i], tags'[i])
           /\ DOMAIN cels' = DOMAIN cels
           /\ \A l \in DOMAIN cels :
                 /\ DOMAIN cels'[l] = DOMAIN cels[l]
                 /\ \A f \in DOMAIN cels[l] : SameButAnnotation(cels[l][f], cels'[l][f])
           /\ Cardinality(Annotated) <= 1
           /\ UNCHANGED <<slices, palette, frame_infos>>
           /\ \/ last_chunk_type' = last_chunk_type
              \/ /\ last_chunk_type.kind = "Tags"
                 /\ last_chunk_type' = [kind |-> "Tags",
                                        cur_index |-> last_chunk_type.cur_index + 1] ]_vars

\* a UserData chunk annotated the first of two tags, with a layer and a cel around
C23_Witness ==
    /\ consumed # <<>>
    /\ LastItem.kind = "UserData"
    /\ last_chunk_type = [kind |-> "Tags", cur_index |-> 1]
    /\ DOMAIN tags = {0, 1}
    /\ tags[0].user_data = LastItem.data.text
    /\ tags[0].name = "tb"
    /\ tags[1].user_data = EmptyString
    /\ layers # EmptyMap

-----------------------------------------------------------------------------
(* Properties of the Tags and Layer arms, under Spec *)

\* the tags declared by the Tags chunks of cs, in arrival order
RECURSIVE DeclaredTags(_)
DeclaredTags(cs) ==
    IF cs = <<>> THEN <<>>
    ELSE (IF Head(cs).kind = "Tags" THEN Head(cs).tags ELSE <<>>) \o DeclaredTags(Tail(cs))

\* C21: after any number of Tags chunks declaring t tags in all, the tag map has
\* exactly the keys 0 .. t - 1, the tag at key i is the i-th tag declared across all
\* Tags chunks in arrival order and its index field is i, and right after a Tags
\* chunk the cursor is the global index of the first tag of that chunk.
C21_TagsIndexedGlobally ==
    LET declared == DeclaredTags(Folded)
        t == Len(declared)
    IN  /\ DOMAIN tags = 0 .. t - 1
        /\ \A i \in 0 .. t - 1 :
              /\ tags[i].index = i
              /\ tags[i].frames = [start |-> declared[i + 1].from,
                                   end |-> declared[i + 1].to]
              /\ tags[i].animation_direction = declared[i + 1].anim_direction
              /\ tags[i].name = declared[i + 1].name
        /\ (consumed # <<>> /\ LastItem.kind = "Tags")
           => last_chunk_type = [kind |-> "Tags", cur_index |-> t - Len(LastItem.tags)]

\* a Tags chunk of one tag, then a Tags chunk of two: the cursor is 1
C21_Witness ==
    /\ Len(consumed) = 3
    /\ consumed[2].kind = "Tags" /\ Len(consumed[2].tags) = 1
    /\ consumed[3].kind = "Tags" /\ Len(consumed[3].tags) = 2
    /\ DOMAIN tags = {0, 1, 2}
    /\ tags[0].name = "ta" /\ tags[1].name = "tb" /\ tags[2].name = "ta"
    /\ tags[2].index = 2
    /\ last_chunk_type = [kind |-> "Tags", cur_index |-> 1]

-----------------------------------------------------------------------------
(* Properties of the Layer arm, under SpecLayers *)

LayerChunksFolded == OfKind(Folded, "Layer")

\* C22: the layer built from a Layer chunk has opacity() = Some(chunk opacity)
\* exactly when it is Normal and bit 0 of the header flags is set, None otherwise;
\* blend_mode() is the blend mode of the chunk for a Normal layer and Normal for a
\* Group; is_visible() is bit 0 of the chunk flags.
C22_LayerAccessors ==
    /\ DOMAIN layers = 0 .. Len(LayerChunksFolded) - 1
    /\ \A i \in DOMAIN layers :
          LET c == LayerChunksFolded[i + 1]
              normal == c.layer_type = "Normal"
              header_bit == raw_header.flags \in {1, 3}
          IN  /\ layers[i].variant = c.layer_type
              /\ AsepriteLayer_opacity(layers[i])
                 = IF normal /\ header_bit THEN {c.opacity} ELSE {}
              /\ AsepriteLayer_blend_mode(layers[i])
                 = IF normal THEN c.blend_mode ELSE "Normal"
              /\ is_visible(layers[i]) = (c.flags \in {1, 3})

\* with the header bit set, a hidden Normal layer whose chunk has flag bit 1 set and
\* a shown Group
C22_Witness ==
    /\ raw_header.flags = 1
    /\ Len(consumed) = 3
    /\ consumed[2].kind = "Layer" /\ consumed[2].layer_type = "Normal"
    /\ consumed[2].flags = 2
    /\ consumed[3].kind = "Layer" /\ consumed[3].layer_type = "Group"
    /\ consumed[3].flags = 3
    /\ AsepriteLayer_opacity(layers[0]) = {consumed[2].opacity}
    /\ AsepriteLayer_blend_mode(layers[0]) = "SoftLight"
    /\ ~is_visible(layers[0])
    /\ AsepriteLayer_opacity(layers[1]) = {}
    /\ AsepriteLayer_blend_mode(layers[1]) = "Normal"
    /\ is_visible(layers[1])

-----------------------------------------------------------------------------
(* Properties of get_cel and of the skipped layers, under SpecQueries *)

\* the visible layers for which get_cel finds no cel at frame f
Missing(f) == {l \in DOMAIN layers : layers[l].visible /\ ~HasCel(l, f)}

\* the document without the layers of a set, the topmost taken out first
RECURSIVE WithoutLayers(_, _)
WithoutLayers(aseprite, gone) ==
    IF gone = {}
    THEN aseprite
    ELSE LET top == CHOOSE l \in gone : \A k \in gone : k <= l
         IN  WithoutLayers(RemoveLayer(aseprite, top), gone \ {top})

\* C24: get_cel(layer, frame) is the InvalidLayer error when the layer index has no
\* cel collection, the InvalidFrame error when the collection has no entry at the
\* frame index, and the cel otherwise; rendering frame f gives what it gives on the
\* document without the visible layers that have no cel at f, and a transparent
\* canvas when every visible layer is one of them.
C24_MissingCelSkipped ==
    /\ query.op = "get_cel"
       => result.res =
             IF query.layer_index \notin DOMAIN cels
             THEN [kind |-> "err",
                   error |-> [variant |-> "From<AsepriteInvalidError>",
                              inner |-> "InvalidLayer", index |-> query.layer_index]]
             ELSE IF query.frame_index \notin DOMAIN cels[query.layer_index]
             THEN [kind |-> "err",
                   error |-> [variant |-> "From<AsepriteInvalidError>",
                              inner |-> "InvalidFrame", index |-> query.frame_index]]
             ELSE [kind |-> "ok", value |-> cels[query.layer_index][query.frame_index]]
    /\ query.op = "image_for_frame"
       => /\ result.res =
                image_for_frame(WithoutLayers(Aseprite, Missing(query.frame_index)),
                                query.frame_index).res
          /\ (\A l \in DOMAIN layers : layers[l].visible => l \in Missing(query.frame_index))
             => result.res = Ok(RgbaImage_new(raw_header.width, raw_header.height))

\* a frame was rendered over two visible layers: the lower one has no cel collection,
\* the upper one has cels but none at the frame, and the canvas stayed transparent
C24_Witness ==
    /\ query.op = "image_for_frame"
    /\ DOMAIN layers = {0, 1}
    /\ layers[0].visible /\ layers[1].visible
    /\ 0 \notin DOMAIN cels
    /\ HasCel(1, 0) /\ ~HasCel(1, query.frame_index)
    /\ result.res = Ok(RgbaImage_new(2, 2))

-----------------------------------------------------------------------------
(* Properties of the backward scan on any nesting, under SpecTree *)

\* C25: find_layer_belong_groups(index) returns a list for every document and every
\* index, also when the backward scan reaches index 0 without meeting a Group of the
\* next-shallower level, and the list is empty when the index is not a layer or the
\* layer has child_level 0.
C25_GroupScanTerminates ==
    query.op = "find_layer_belong_groups"
    => /\ result.res.kind = "ok"
       /\ (query.index \notin DOMAIN layers \/ layers[query.index].child_level = 0)
          => result.res.value = <<>>

-----------------------------------------------------------------------------
(* Properties of the pixel writes at the canvas edges, under SpecPaint *)

\* the visible layers whose cel at frame f has pixels at or beyond the right or the
\* bottom edge of the canvas
ReachingOut(f) ==
    {l \in DOMAIN layers :
        /\ layers[l].visible /\ HasCel(l, f)
        /\ \/ cels[l][f].x + Shown(l, f).width > raw_header.width
           \/ cels[l][f].y + Shown(l, f).height > raw_header.height}

\* C26: rendering a frame writes no pixel outside the canvas: a source pixel whose
\* destination is left of, above, at or beyond the right or the bottom edge is
\* clipped, so no rendering ends in an out-of-bounds write and a frame in which only
\* cels of at most MaxCel x MaxCel pixels are visible is the clipped painting.
C26_WritesStayOnCanvas ==
    (query # NoQuery /\ query.op = "image_for_frame")
    => /\ ~(result.res.kind = "panic" /\ result.res.cause = "Image index out of bounds")
       /\ (/\ ReachingOut(query.frame_index) # {}
           /\ \A l \in ReachingOut(query.frame_index) :
                 /\ Shown(l, query.frame_index).width <= MaxCel
                 /\ Shown(l, query.frame_index).height <= MaxCel)
          => result.res.kind = "ok"

-----------------------------------------------------------------------------
(* Properties of the trailing-metadata target across the stream, under Spec *)

\* the chunks whose arm assigns last_chunk_type
Targeting == {"Layer", "Cel", "Tags", "Palette", "Slice"}

\* the position in the stream of the last of them, 0 when there is none
LastTargeting ==
    LET at == {i \in DOMAIN consumed : consumed[i].kind \in Targeting}
    IN  IF at = {} THEN 0 ELSE CHOOSE i \in at : \A k \in at : k <= i

\* the entity a UserData chunk arriving now is for, from the stream alone: the layer
\* or cel of the last targeting chunk, the tag of a Tags chunk that the UserData
\* chunks since have not taken yet, nothing after a Palette or Slice chunk
Owner ==
    LET p == LastTargeting
        c == consumed[p]
        since == SubSeq(consumed, p + 1, Len(consumed))
    IN  IF p = 0 THEN {}
        ELSE IF c.kind = "Layer" THEN {<<"layer", Len(OfKind(consumed, "Layer")) - 1>>}
        ELSE IF c.kind = "Cel" THEN {<<"cel", c.layer_index, CelChunksFor(c.layer_index) - 1>>}
        ELSE IF c.kind = "Tags"
        THEN {<<"tag", Len(DeclaredTags(SubSeq(consumed, 1, p - 1)))
                       + Len(OfKind(since, "UserData"))>>}
        ELSE {}

\* C27: the trailing-metadata target changes only when a Layer, Cel, Tags, Palette or
\* Slice chunk is folded or a UserData chunk advances the Tags cursor by one; a frame
\* header and a ColorProfile chunk leave it as it is; and a UserData chunk right
\* after a frame header or a ColorProfile chunk annotates the entity of the last
\* targeting chunk before it and nothing else.
C27_TargetCarriedAcross ==
    [][ /\ last_chunk_type' # last_chunk_type
           => \/ FoldsChunk(Targeting)
              \/ /\ FoldsChunk({"UserData"})
                 /\ last_chunk_type.kind = "Tags"
                 /\ last_chunk_type' = [kind |-> "Tags",
                                        cur_index |-> last_chunk_type.cur_index + 1]
        /\ FoldsChunk({"Frame", "ColorProfile"}) => last_chunk_type' = last_chunk_type
        /\ (/\ FoldsChunk({"UserData"})
            /\ consumed # <<>>
            /\ LastItem.kind \in {"Frame", "ColorProfile"})
           => /\ Annotated \subseteq Owner
              /\ status' = "running"
                 => \A o \in Owner :
                       LET entity == IF o[1] = "layer" THEN layers'[o[2]]
                                     ELSE IF o[1] = "tag" THEN tags'[o[2]]
                                     ELSE cels'[o[2]][o[3]]
                       IN  /\ entity.color = FoldedData.color
                           /\ entity.user_data = FoldedData.text ]_vars

\* a Layer chunk, a ColorProfile chunk and the header of the next frame, then a
\* UserData chunk: the layer carries its annotation
C27_Witness ==
    /\ Len(consumed) = 5
    /\ consumed[2].kind = "Layer"
    /\ consumed[3].kind = "ColorProfile"
    /\ consumed[4].kind = "Frame"
    /\ consumed[5].kind = "UserData"
    /\ last_chunk_type = [kind |-> "Layer"]
    /\ layers[0].user_data = consumed[5].data.text
    /\ layers[0].color = consumed[5].data.color

-----------------------------------------------------------------------------
(* Properties of the cel keys against the frame records, under SpecCels *)

\* the frame record, counted from 0, that carries the item at position p of the stream
FrameRecordOf(p) == Len(OfKind(SubSeq(consumed, 1, p), "Frame")) - 1

\* no frame record carries two Cel chunks for one layer
OneCelPerFrame ==
    \A p, q \in DOMAIN consumed :
       (/\ consumed[p].kind = "Cel" /\ consumed[q].kind = "Cel"
        /\ consumed[p].layer_index = consumed[q].layer_index
        /\ FrameRecordOf(p) = FrameRecordOf(q))
       => p = q

\* C28: in the document from_raw returns, get_cel(L, f) is the cel built from the Cel
\* chunk for layer L that arrived inside frame record f, also when an earlier frame
\* record carries no Cel chunk for L.
C28_CelOfFrameRecord ==
    (status = "ok" /\ OneCelPerFrame)
    => \A p \in DOMAIN consumed :
          consumed[p].kind = "Cel"
          => get_cel(Aseprite, consumed[p].layer_index, FrameRecordOf(p))
             = Ok([x |-> consumed[p].x, y |-> consumed[p].y,
                   opacity |-> consumed[p].opacity, raw_cel |-> consumed[p].cel,
                   color |-> DefaultColor, user_data |-> EmptyString])

-----------------------------------------------------------------------------
(* Properties of a link with frame_position 0, under SpecQueries *)

\* the cel of layer l at frame f is a link whose frame_position is 0
LinksToZero(l, f) ==
    /\ HasCel(l, f)
    /\ IsLinked(cels[l][f])
    /\ cels[l][f].raw_cel.frame_position = 0

\* C29: get_image_by_layer_frame on a Linked cel with frame_position 0, and rendering
\* a frame in which a visible layer has one, computes the target frame index without
\* underflow: the query does not abort and looks up no wrapped-around frame index.
C29_LinkToZeroIsAnError ==
    (\/ /\ query.op = "get_image_by_layer_frame"
        /\ LinksToZero(query.layer_index, query.frame_index)
     \/ /\ query.op = "image_for_frame"
        /\ \E l \in DOMAIN layers : layers[l].visible /\ LinksToZero(l, query.frame_index))
    => /\ result.res.kind # "panic"
       /\ \A k \in DOMAIN result.lookups : result.lookups[k][2] >= 0

-----------------------------------------------------------------------------
(* Properties of visibility under nesting, under SpecQueries *)

\* the document with the visibility flag of layer g flipped
Toggled(aseprite, g) == [aseprite EXCEPT !.layers[g].visible = ~@]

\* C30: rendering a frame does not look at the Group a layer is nested in: flipping
\* the visibility flag of a Group without cels leaves the result as it is, and when
\* the frame is returned and a visible layer has a block at it, nested or not and
\* whatever the flag of the Group before it, the block is on the image.
C30_OwnFlagDecides ==
    query.op = "image_for_frame"
    => /\ \A g \in DOMAIN layers :
             (layers[g].variant = "Group" /\ g \notin DOMAIN cels)
             => image_for_frame(Toggled(Aseprite, g), query.frame_index).res = result.res
       /\ \A l \in DOMAIN layers :
             (/\ result.res.kind = "ok"
              /\ layers[l].visible
              /\ HasCel(l, query.frame_index)
              /\ ~IsLinked(cels[l][query.frame_index]))
             => result.res.value.pixels[<<0, 0>>] = cels[l][query.frame_index].raw_cel.pixels[1]

\* a hidden Group without cels under a visible layer nested in it: the block of the
\* nested layer is on the frame
C30_Witness ==
    /\ query.op = "image_for_frame"
    /\ DOMAIN layers = {0, 1}
    /\ layers[0].variant = "Group" /\ ~layers[0].visible /\ layers[0].child_level = 0
    /\ layers[1].variant = "Normal" /\ layers[1].visible /\ layers[1].child_level = 1
    /\ DOMAIN cels = {1}
    /\ HasCel(1, query.frame_index)
    /\ ~IsLinked(cels[1][query.frame_index])
    /\ result.res.kind = "ok"
    /\ result.res.value.pixels[<<0, 0>>] = RedPixel

====
